---- MODULE Spec2Model ----
(***************************************************************************)
(* A state-machine model of the chanjing SDK's orchestration layer:        *)
(* credential resolution, the token cache (memory + disk), the rate        *)
(* limiter, the HTTP retry loop, the JSON business layer with its single   *)
(* auth-refresh retry, the upload progress reader, the voice-clone cache   *)
(* and the lip-sync job polling loop.                                      *)
(*                                                                         *)
(* Each component has its own specification (SpecCred, SpecAuth, ...);     *)
(* the variables of the other components stay at their initial values.     *)
(***************************************************************************)
EXTENDS Integers, Sequences, FiniteSets, TLC

VARIABLES
    \* ---- credential resolution (auth.py, _resolve_credentials) ----
    credPc,       \* "init" | "resolved" | "error"
    credArgs,     \* explicit arguments <<app_id, secret_key>> (None or a string)
    credEnv,      \* environment variables <<CHANJING_APP_ID, CHANJING_SECRET_KEY>>
    credFile,     \* config file: NoFile | BadFile | an object with both fields
    credResult,   \* the returned pair, or the error
    \* ---- token cache and JSON business layer (auth.py, api.py) ----
    live,         \* the clients (processes) that run
    now,          \* time.time(), in seconds
    ticks,        \* how many times the clock has advanced
    cfg,          \* per client: the resolved credentials <<app_id, secret_key>>
    mem,          \* per client: AuthManager's _token, _token_expire, _token_config_hash
    disk,         \* the token cache file token.json of the shared cache directory
    stk,          \* per client: the json_request calls in progress, innermost last
    held,         \* per client: the token the caller got from its last get_token
    hdr,          \* per client: the access_token header of the business request
    call,         \* per client: what the current/last top-level json_request did
    gt,           \* per client: what the current/last get_token call did
    srvValid,     \* the tokens the platform accepts
    nextTok,      \* the next token the platform issues
    tokCred,      \* per token: the credentials it was issued for
    \* ---- rate limiter (api.py, RateLimiter); times in half seconds ----
    rlLive,       \* the threads that call wait
    rlClock,      \* time.time()
    rlTimestamps, \* _timestamps, 0 where the category has no entry
    rlPc,         \* per thread: "idle" | "sleep" | "stamp"
    rlCat,        \* per thread: the category of its wait call
    rlWake,       \* per thread: when its time.sleep(wait_time) ends
    rlRead,       \* per thread: last_time, the timestamp its wait call read
    rlPrev,       \* per category: the return time of the wait before the last one
    rlCalls,      \* the wait calls made
    \* ---- HTTP request layer (api.py, ApiClient.request) ----
    rqPc,         \* "idle" | "attempt" | "sleeping" | "returned" | "raised"
    rqMax,        \* max_retries
    rqAttempt,    \* the loop variable attempt
    rqHist,       \* how each HTTP attempt of the call ended, in order
    rqSleeps,     \* the time.sleep(retry_delay) calls of the call
    rqWaits,      \* the rate limiter waits of the call
    rqLast,       \* last_exception
    rqResult,     \* what the call returned or raised, and the exception wrapped
    \* ---- voice-clone cache (cache.py, VoiceCloneCache) ----
    vcLive,       \* the cache instances in use
    vcFile,       \* voice_clone.json of the cache directory
    vcMem,        \* per instance: _cache (None until _load)
    vcLast,       \* per instance: its last operation, key and id / result
    vcOps,        \* the operations made since a second instance is in use
    \* ---- upload progress reader (api.py, UploadProgress) ----
    upTotal,      \* _total, len(data)
    upPos,        \* _pos
    upLastPct,    \* _last_pct
    upCalls,      \* the percentages passed to on_progress, in order
    upReads,      \* whether read has been called on this object
    \* ---- the PUT of upload_file (api.py, upload_file and request) ----
    putPc,        \* "idle" | "send" | "uploaded" | "raised"
    putAttempt,   \* the loop variable attempt of request()
    putFrom,      \* the read position of the body when this attempt began
    \* ---- lip-sync service (services/lip_sync.py) ----
    lsPc,         \* position of create / _poll
    lsClock,      \* time.time(), in seconds since the operation began
    lsStart,      \* start, of _poll
    lsTask,       \* task_id, the data of the job-creation response
    lsLastStatus, \* last_status
    lsLastProgress, \* last_progress
    lsCb,         \* the last (stage, percent) passed to on_progress
    lsResult,     \* what create returned or raised
    lsHist,       \* history of the status responses of this operation
    \* ---- TTS service (services/tts.py) ----
    ttsPc,        \* position of synthesize / _poll
    ttsClock,     \* time.time(), in seconds since the operation began
    ttsStart,     \* start, of _poll
    ttsTask,      \* task_id of the job-creation response
    ttsPollCount, \* poll_count
    ttsErrors,    \* consecutive_errors
    ttsCb,        \* the last (stage, percent) passed to on_progress
    ttsResult,    \* what synthesize returned or raised
    ttsHist,      \* history of the status queries of this operation
    \* ---- voice-clone service (client.py, services/voice_clone.py) ----
    cnPc,         \* position of clone_voice / clone / _poll_clone
    cnArgs,       \* audio of the call: (hash, model), use_cache
    cnClock,      \* time.time(), in seconds since the operation began
    cnStart,      \* start, of _poll_clone
    cnCached,     \* cached_id
    cnVoice,      \* voice_id of the job-creation response
    cnIssued,     \* how many voice ids the platform has issued
    cnLastStatus, \* last_status
    cnLastPct,    \* last_pct
    cnErrors,     \* consecutive_errors
    cnCb,         \* the last (stage, percent) passed to on_progress
    cnResult,     \* what clone_voice returned or raised
    cnHist,       \* history of the requests and cache calls of this operation
    \* ---- file upload pipeline (api.py, upload_file) ----
    ufPc,         \* position of upload_file / _poll_file_status
    ufClock,      \* time.time(), in seconds since the call began
    ufStart,      \* start, of _poll_file_status
    ufFileId,     \* file_id of the upload-url response
    ufResult,     \* what upload_file returned or raised
    ufHist,       \* history of the PUT and of the file-status queries
    \* ---- the client ----
    svc           \* what this client is used for: a service or an upload ("none" before the first call)

credVars == <<credPc, credArgs, credEnv, credFile, credResult>>

authVars == <<live, now, ticks, cfg, mem, disk, stk, held, hdr, call, gt,
              srvValid, nextTok, tokCred>>

rlVars == <<rlLive, rlClock, rlTimestamps, rlPc, rlCat, rlWake, rlRead, rlPrev,
           rlCalls>>

rqVars == <<rqPc, rqMax, rqAttempt, rqHist, rqSleeps, rqWaits, rqLast, rqResult>>

vcVars == <<vcLive, vcFile, vcMem, vcLast, vcOps>>

putVars == <<putPc, putAttempt, putFrom>>

upVars == <<upTotal, upPos, upLastPct, upCalls, upReads, putVars>>

lsVars == <<lsPc, lsClock, lsStart, lsTask, lsLastStatus, lsLastProgress,
            lsCb, lsResult, lsHist>>

ttsVars == <<ttsPc, ttsClock, ttsStart, ttsTask, ttsPollCount, ttsErrors,
             ttsCb, ttsResult, ttsHist>>

cnVars == <<cnPc, cnArgs, cnClock, cnStart, cnCached, cnVoice, cnIssued,
            cnLastStatus, cnLastPct, cnErrors, cnCb, cnResult, cnHist>>

ufVars == <<ufPc, ufClock, ufStart, ufFileId, ufResult, ufHist>>

vars == <<credVars, authVars, rlVars, rqVars, vcVars, upVars, lsVars, ttsVars,
          cnVars, ufVars, svc>>

\* the variables of the other components, which a component's actions leave alone
notCred == <<authVars, rlVars, rqVars, vcVars, upVars, lsVars, ttsVars, cnVars, ufVars, svc>>
notAuth == <<credVars, rlVars, rqVars, vcVars, upVars, lsVars, ttsVars, cnVars, ufVars, svc>>
notRl == <<credVars, authVars, rqVars, vcVars, upVars, lsVars, ttsVars, cnVars, ufVars, svc>>
notRq == <<credVars, authVars, rlVars, vcVars, upVars, lsVars, ttsVars, cnVars, ufVars, svc>>
notVc == <<credVars, authVars, rlVars, rqVars, upVars, lsVars, ttsVars, cnVars, ufVars, svc>>
notUp == <<credVars, authVars, rlVars, rqVars, vcVars, lsVars, ttsVars, cnVars, ufVars, svc>>
othersLs == <<credVars, authVars, rlVars, rqVars, vcVars, upVars, ttsVars, cnVars,
              ufVars>>
othersTts == <<credVars, authVars, rlVars, rqVars, vcVars, upVars, lsVars, cnVars,
               ufVars>>
\* the voice-clone service works on the cache of instance 1
othersCn == <<credVars, authVars, rlVars, rqVars, upVars, lsVars, ttsVars,
              ufVars, vcLive, vcLast, vcOps>>
othersUf == <<credVars, authVars, rlVars, rqVars, vcVars, upVars, lsVars, ttsVars,
              cnVars>>
notUf == <<othersUf, svc>>
notLs == <<othersLs, svc>>
notTts == <<othersTts, svc>>
notCn == <<othersCn, svc>>

\* Python's None, as a value comparable with the modelled strings
None == <<"None">>

(***************************************************************************)
(* Strings are sequences of characters, so that strip() is modelled by     *)
(* what it does.                                                           *)
(***************************************************************************)
SP == " "

RECURSIVE LStrip(_)
LStrip(s) == IF s # <<>> /\ Head(s) = SP THEN LStrip(Tail(s)) ELSE s

RECURSIVE RStrip(_)
RStrip(s) ==
    IF s # <<>> /\ s[Len(s)] = SP THEN RStrip(SubSeq(s, 1, Len(s) - 1)) ELSE s

\* str.strip()
Strip(s) == RStrip(LStrip(s))

\* Python truthiness of an Optional[str]: None and "" are falsy
Truthy(s) == s # None /\ s # <<>>

\* the strings the inputs are drawn from: "", " ", "a", " b", "b "
StrVals == { <<>>, <<SP>>, <<"a">>, <<SP, "b">>, <<"b", SP>> }

\* ~/.chanjing/config.json: missing, unreadable as a JSON object of strings,
\* or an object whose (defaulted) fields are strings
NoFile == [kind |-> "missing", app_id |-> <<>>, secret_key |-> <<>>]
BadFile == [kind |-> "bad", app_id |-> <<>>, secret_key |-> <<>>]

ConfigFiles ==
    {NoFile, BadFile} \cup [kind : {"ok"}, app_id : StrVals, secret_key : StrVals]

\* the outcome of _resolve_credentials: a pair, or the ValueError
CredOk(a, s) == [ok |-> TRUE, app_id |-> a, secret_key |-> s]
CredError == [ok |-> FALSE, app_id |-> <<>>, secret_key |-> <<>>]

\* step 1 of _resolve_credentials: "if app_id and secret_key"
ExplicitSupplied(a, s) == Truthy(a) /\ Truthy(s)

\* step 2: both environment values non-empty after strip()
EnvSupplied(e) == Strip(e[1]) # <<>> /\ Strip(e[2]) # <<>>

\* step 3: the file exists, parses, and both fields are non-empty after strip()
FileSupplied(f) ==
    /\ f.kind = "ok"
    /\ Strip(f.app_id) # <<>> /\ Strip(f.secret_key) # <<>>

\* _resolve_credentials: the returned pair, or the ValueError
ResolveCredentials(args, env, file) ==
    IF ExplicitSupplied(args[1], args[2])
    THEN CredOk(Strip(args[1]), Strip(args[2]))
    ELSE IF EnvSupplied(env)
    THEN CredOk(Strip(env[1]), Strip(env[2]))
    ELSE IF FileSupplied(file)
    THEN CredOk(Strip(file.app_id), Strip(file.secret_key))
    ELSE CredError

CredInit ==
    /\ credPc = "init"
    /\ credArgs = <<None, None>>
    /\ credEnv = <<<<>>, <<>>>>
    /\ credFile = NoFile
    /\ credResult = CredError

\* AuthManager.__init__ calling _resolve_credentials on one input combination
Resolve ==
    /\ credPc = "init"
    /\ \E a \in StrVals \cup {None}, s \in StrVals \cup {None},
          e \in StrVals \X StrVals, f \in ConfigFiles :
          LET r == ResolveCredentials(<<a, s>>, e, f) IN
          /\ credArgs' = <<a, s>>
          /\ credEnv' = e
          /\ credFile' = f
          /\ credResult' = r
          /\ credPc' = IF r.ok THEN "resolved" ELSE "error"
    /\ UNCHANGED notCred

\* a new construction attempt
CredRestart ==
    /\ credPc # "init"
    /\ credPc' = "init"
    /\ credArgs' = <<None, None>>
    /\ credEnv' = <<<<>>, <<>>>>
    /\ credFile' = NoFile
    /\ credResult' = CredError
    /\ UNCHANGED notCred

NextCred == Resolve \/ CredRestart

(***************************************************************************)
(* Token cache / AuthManager and the JSON business layer                   *)
(***************************************************************************)
Clients == {1, 2}

\* bounds of the model
MaxTicks == 2
MaxTokens == 2
MaxDepth == 3

\* a token kept for an hour (a faulty variant of TokenTTL)
TokenTTLHour == 1 * 3600

\* auth.py: _token_expire = time.time() + 24 * 3600
TokenTTL == 24 * 3600
\* auth.py: now < _token_expire - 300
Margin == 300

\* the clock advances by a second, or to the last second a token is reusable
TickSteps == {1, TokenTTL - Margin - 1}

\* tokens are 1, 2, ...; Python's None and "" are the two falsy token values
NoneTok == 0
EmptyTok == -1
Tokens == 1..MaxTokens
TokTruthy(t) == t # NoneTok /\ t # EmptyTok

\* the credentials a client can be constructed with: any two strings
CredSet == { <<<<"a">>, <<"k">>>>,
             <<<<"a">>, <<"k", ":", "k">>>>,
             <<<<"a", ":", "k">>, <<"k">>>> }

\* _compute_hash: md5 of f"{app_id}:{secret_key}", md5 taken as injective
ComputeHash(app_id, secret_key) == app_id \o <<":">> \o secret_key

\* self._config_hash of client c
ConfigHash(c) == ComputeHash(cfg[c][1], cfg[c][2])

\* AuthManager's in-memory token state
MemState(t, e, f) == [tok |-> t, exp |-> e, fp |-> f]
\* reset(), and the clearing in get_token / _load_token_cache
Cleared == MemState(NoneTok, 0, None)

\* the token cache file
DiskFile(k, t, e, f) == [kind |-> k, tok |-> t, exp |-> e, fp |-> f]
NoDisk == DiskFile("missing", NoneTok, 0, None)
CorruptDisk == DiskFile("corrupt", NoneTok, 0, None)

\* _config_changed, for memory state m of a client with fingerprint h
ConfigChanged(m, h) == h # m.fp

\* the reuse test without the safety margin (a faulty variant of Reusable)
ReusableNoMargin(m, t) == TokTruthy(m.tok) /\ t < m.exp

\* the reuse test of get_token: "self._token and now < self._token_expire - 300"
Reusable(m, t) == TokTruthy(m.tok) /\ t < m.exp - Margin

\* _load_token_cache
LoadTokenCache(m, d) ==
    CASE d.kind = "ok" -> MemState(d.tok, d.exp, d.fp)
      [] d.kind = "corrupt" -> Cleared
      [] OTHER -> m

\* get_token up to the point where it either returns a cached token
\* (src "memory" or "disk") or goes on to _refresh_token (src "refresh")
GetTokenLocal(m, d, t, h) ==
    LET m1 == IF ConfigChanged(m, h) THEN Cleared ELSE m IN
    IF Reusable(m1, t)
    THEN [mem |-> m1, src |-> "memory", tok |-> m1.tok]
    ELSE IF m1.tok = NoneTok
    THEN LET m2 == LoadTokenCache(m1, d) IN
         IF Reusable(m2, t) /\ ~ConfigChanged(m2, h)
         THEN [mem |-> m2, src |-> "disk", tok |-> m2.tok]
         ELSE [mem |-> IF ConfigChanged(m2, h) THEN Cleared ELSE m2,
               src |-> "refresh", tok |-> NoneTok]
    ELSE [mem |-> m1, src |-> "refresh", tok |-> NoneTok]

\* the business codes: 0 success, 10400/10401 auth expired, 500 any other
AuthExpired == {10400, 10401}
Codes == {0, 500} \cup AuthExpired

\* json_request refreshing on every non-zero code (a faulty variant of
\* JsonBranch)
JsonBranchRefreshAny(code, retried) ==
    CASE code = 0 -> "return"
      [] ~retried -> "refresh"
      [] code \in AuthExpired -> "permission"
      [] OTHER -> "runtime"

\* json_request refreshing on every auth-expired code (a faulty variant of JsonBranch)
JsonBranchNoFlag(code, retried) ==
    CASE code = 0 -> "return"
      [] code \in AuthExpired -> "refresh"
      [] OTHER -> "runtime"

\* json_request after response.json(): what it does with a code, given
\* its _retried_auth flag
JsonBranch(code, retried) ==
    CASE code = 0 -> "return"
      [] code \in AuthExpired /\ ~retried -> "refresh"
      [] code \in AuthExpired -> "permission"
      [] OTHER -> "runtime"

\* one json_request call in progress
Frame(k, r, p) == [kind |-> k, retried |-> r, phase |-> p]
\* _refresh_token's request: json_request(..., _retried_auth=True)
TokFrame == Frame("tok", TRUE, "sent")

NewCall == [resets |-> 0, gets |-> 0, tokReqs |-> 0, reissues |-> 0,
            rejected |-> NoneTok, fresh |-> NoneTok,
            freshSrc |-> "none", lastCode |-> -1, outcome |-> "none"]
NewGt == [src |-> "none", tok |-> NoneTok, fpOk |-> FALSE, timeOk |-> FALSE,
          calls |-> 0, issued |-> NoneTok, diskOk |-> FALSE, saved |-> FALSE]

\* the cache file holds a token a client with fingerprint h can use at time
\* t: parseable, a token, the same fingerprint, t before its expiry less 300 s
DiskUsable(d, t, h) ==
    d.kind = "ok" /\ TokTruthy(d.tok) /\ d.fp = h /\ t < d.exp - Margin

AuthInit ==
    /\ live = {1}
    /\ now = 0
    /\ ticks = 0
    /\ cfg = [c \in Clients |-> <<<<"a">>, <<"k">>>>]
    /\ mem = [c \in Clients |-> Cleared]
    /\ disk = NoDisk
    /\ stk = [c \in Clients |-> <<>>]
    /\ held = [c \in Clients |-> NoneTok]
    /\ hdr = [c \in Clients |-> NoneTok]
    /\ call = [c \in Clients |-> NewCall]
    /\ gt = [c \in Clients |-> NewGt]
    /\ srvValid = {}
    /\ nextTok = 1
    /\ tokCred = [t \in Tokens |-> <<None, None>>]

\* the clock advances
Tick ==
    /\ ticks < MaxTicks
    /\ \E d \in TickSteps : now' = now + d
    /\ ticks' = ticks + 1
    /\ UNCHANGED notAuth
    /\ UNCHANGED <<live, cfg, mem, disk, stk, held, hdr, call, gt, srvValid, nextTok, tokCred>>

\* the platform invalidates a token before its local expiry
ServerInvalidate ==
    /\ \E t \in srvValid : srvValid' = srvValid \ {t}
    /\ UNCHANGED notAuth
    /\ UNCHANGED <<live, now, ticks, cfg, mem, disk, stk, held, hdr, call, gt, nextTok, tokCred>>

\* the cache file is damaged (a torn write, a foreign file)
DiskDamaged ==
    /\ disk.kind = "ok"
    /\ disk' = CorruptDisk
    /\ UNCHANGED notAuth
    /\ UNCHANGED <<live, now, ticks, cfg, mem, stk, held, hdr, call, gt, srvValid, nextTok, tokCred>>

\* another process that shares the cache directory refreshes its token:
\* _refresh_token and _save_token_cache there
OtherProcessRefresh ==
    /\ nextTok <= MaxTokens
    /\ \E cr \in CredSet :
          /\ disk' = DiskFile("ok", nextTok, now + TokenTTL,
                              ComputeHash(cr[1], cr[2]))
          /\ tokCred' = [tokCred EXCEPT ![nextTok] = cr]
    /\ srvValid' = srvValid \cup {nextTok}
    /\ nextTok' = nextTok + 1
    /\ UNCHANGED notAuth
    /\ UNCHANGED <<live, now, ticks, cfg, mem, stk, held, hdr, call, gt>>

\* AuthManager.__init__ in a new process: resolved credentials, empty memory
Restart(c) ==
    /\ stk[c] = <<>>
    /\ \E cr \in CredSet : cfg' = [cfg EXCEPT ![c] = cr]
    /\ mem' = [mem EXCEPT ![c] = Cleared]
    /\ held' = [held EXCEPT ![c] = NoneTok]
    /\ hdr' = [hdr EXCEPT ![c] = NoneTok]
    /\ call' = [call EXCEPT ![c] = NewCall]
    /\ gt' = [gt EXCEPT ![c] = NewGt]
    /\ UNCHANGED notAuth
    /\ UNCHANGED <<live, now, ticks, disk, stk, srvValid, nextTok, tokCred>>

\* what a get_token call of a client with fingerprint h did when it returns
\* token r.tok at time t: where the token came from, whether the fingerprint
\* stored with it is h, whether t is before its stored expiry less the margin,
\* how many token requests the call made, whether the cache file held a
\* usable token when the call began and whether _save_token_cache wrote the
\* file (both FALSE here: the callers fill them in)
GtReturned(r, t, h, n, data) ==
    [src |-> r.src, tok |-> r.tok, fpOk |-> (r.mem.fp = h),
     timeOk |-> (t < r.mem.exp - Margin), calls |-> n, issued |-> data,
     diskOk |-> FALSE, saved |-> FALSE]
\* get_token has gone on to _refresh_token: one token request is in flight
GtPending == [NewGt EXCEPT !.src = "pending", !.calls = 1]

\* CicadaClient._get_token: get_token called by an operation of the client
ClientGetToken(c) ==
    /\ stk[c] = <<>>
    /\ LET r == GetTokenLocal(mem[c], disk, now, ConfigHash(c)) IN
       /\ mem' = [mem EXCEPT ![c] = r.mem]
       /\ call' = [call EXCEPT ![c] = NewCall]
       /\ IF r.src = "refresh"
          THEN /\ stk' = [stk EXCEPT ![c] = <<TokFrame>>]
               /\ gt' = [gt EXCEPT ![c] =
                            [GtPending EXCEPT !.diskOk =
                                DiskUsable(disk, now, ConfigHash(c))]]
               /\ held' = [held EXCEPT ![c] = NoneTok]
          ELSE /\ stk' = stk
               /\ gt' = [gt EXCEPT ![c] =
                            [GtReturned(r, now, ConfigHash(c), 0, NoneTok)
                                EXCEPT !.diskOk =
                                   DiskUsable(disk, now, ConfigHash(c))]]
               /\ held' = [held EXCEPT ![c] = r.tok]
    /\ UNCHANGED notAuth
    /\ UNCHANGED <<live, now, ticks, cfg, disk, hdr, srvValid, nextTok, tokCred>>

\* a service issues a business json_request with the token it was handed
StartRequest(c) ==
    /\ stk[c] = <<>>
    /\ TokTruthy(held[c])
    /\ stk' = [stk EXCEPT ![c] = <<Frame("bus", FALSE, "sent")>>]
    /\ hdr' = [hdr EXCEPT ![c] = held[c]]
    /\ call' = [call EXCEPT ![c] = NewCall]
    /\ UNCHANGED notAuth
    /\ UNCHANGED <<live, now, ticks, cfg, mem, disk, held, gt, srvValid, nextTok, tokCred>>

\* request() raises (retries exhausted, HTTP error status): nothing in
\* json_request, _refresh_token or get_token catches it
RequestRaises(c) ==
    /\ stk[c] # <<>>
    /\ stk[c][Len(stk[c])].phase = "sent"
    /\ stk' = [stk EXCEPT ![c] = <<>>]
    /\ call' = [call EXCEPT ![c].outcome = "exception", ![c].lastCode = -1]
    /\ gt' = [gt EXCEPT ![c].src = IF @ = "pending" THEN "raised" ELSE @]
    /\ UNCHANGED notAuth
    /\ UNCHANGED <<live, now, ticks, cfg, mem, disk, held, hdr, srvValid, nextTok, tokCred>>

\* only business requests carry an access_token header to substitute
HasTokenHeader(f) == f.kind = "bus"

\* the codes the platform can answer a request with
ServerCodes(c, f) ==
    IF f.kind = "tok" THEN Codes
    ELSE IF hdr[c] \in srvValid THEN {0, 500} ELSE AuthExpired

\* the access_token of a token response: a new token, none, or ""
ServerData(f, code) ==
    IF f.kind = "tok" /\ code = 0
    THEN {NoneTok, EmptyTok} \cup (IF nextTok <= MaxTokens THEN {nextTok} ELSE {})
    ELSE {NoneTok}

\* json_request returns the parsed body of a business request (code 0)
ReturnOk(c) ==
    /\ stk' = [stk EXCEPT ![c] = <<>>]
    /\ call' = [call EXCEPT ![c].outcome = "ok", ![c].lastCode = 0]
    /\ UNCHANGED <<mem, disk, held, hdr, gt, srvValid, nextTok, tokCred>>

\* json_request raises PermissionError or RuntimeError
Raise(c, kind, code) ==
    /\ stk' = [stk EXCEPT ![c] = <<>>]
    /\ call' = [call EXCEPT ![c].outcome = kind, ![c].lastCode = code]
    /\ gt' = [gt EXCEPT ![c].src = IF @ = "pending" THEN "raised" ELSE @]
    /\ UNCHANGED <<mem, disk, held, hdr, srvValid, nextTok, tokCred>>

\* get_token has returned token t to the json_request frames in `below`
\* (none: to the client): substitute the header, re-issue with the flag set
Reissue(c, below, t, src) ==
    IF below = <<>>
    THEN /\ stk' = [stk EXCEPT ![c] = <<>>]
         /\ held' = [held EXCEPT ![c] = t]
         /\ hdr' = hdr
         /\ call' = [call EXCEPT ![c].outcome = "ok", ![c].lastCode = 0]
    ELSE LET parent == below[Len(below)] IN
         /\ stk' = [stk EXCEPT ![c] =
                      [below EXCEPT ![Len(below)] = Frame(parent.kind, TRUE, "sent")]]
         /\ held' = held
         /\ hdr' = IF HasTokenHeader(parent) THEN [hdr EXCEPT ![c] = t] ELSE hdr
         /\ call' = [call EXCEPT ![c].reissues = @ + 1, ![c].fresh = t,
                                  ![c].freshSrc = src, ![c].lastCode = 0]

\* raising on None only, "" let through (a faulty variant of RefreshRaises)
RefreshRaisesOnNone(data) == data = NoneTok

\* _refresh_token: "if not self._token: raise RuntimeError"
RefreshRaises(data) == ~TokTruthy(data)

\* _refresh_token after its json_request returned: store, check, save
FinishRefresh(c, below, data, saved) ==
    LET m == MemState(data, now + TokenTTL, ConfigHash(c)) IN
    /\ mem' = [mem EXCEPT ![c] = m]
    /\ IF RefreshRaises(data)
       THEN /\ stk' = [stk EXCEPT ![c] = <<>>]
            /\ call' = [call EXCEPT ![c].outcome = "runtime", ![c].lastCode = 0]
            /\ gt' = [gt EXCEPT ![c].src = "raised"]
            /\ UNCHANGED <<disk, held, hdr, srvValid, nextTok, tokCred>>
       ELSE /\ disk' = IF saved THEN DiskFile("ok", m.tok, m.exp, ConfigHash(c))
                                ELSE disk
            /\ srvValid' = srvValid \cup {data}
            /\ nextTok' = nextTok + 1
            /\ tokCred' = [tokCred EXCEPT ![data] = cfg[c]]
            /\ gt' = [gt EXCEPT ![c] =
                         [GtReturned([src |-> "refresh", tok |-> m.tok, mem |-> m],
                                     now, ConfigHash(c), gt[c].calls, data)
                             EXCEPT !.diskOk = gt[c].diskOk, !.saved = saved]]
            /\ Reissue(c, below, data, "refresh")

\* json_request's auth-expired branch: reset(), get_token(), re-issue
AuthRefresh(c, top, below, code) ==
    LET r == GetTokenLocal(Cleared, disk, now, ConfigHash(c))
        noted == [call[c] EXCEPT !.resets = @ + 1, !.gets = @ + 1,
                                 !.rejected = hdr[c], !.lastCode = code]
    IN
    /\ mem' = [mem EXCEPT ![c] = r.mem]
    /\ UNCHANGED <<disk, srvValid, nextTok, tokCred>>
    /\ IF r.src = "refresh"
       THEN /\ Len(stk[c]) < MaxDepth
            /\ stk' = [stk EXCEPT ![c] =
                         below \o <<Frame(top.kind, top.retried, "refreshing"), TokFrame>>]
            /\ call' = [call EXCEPT ![c] = [noted EXCEPT !.tokReqs = @ + 1]]
            /\ gt' = [gt EXCEPT ![c] =
                         [GtPending EXCEPT !.diskOk =
                             DiskUsable(disk, now, ConfigHash(c))]]
            /\ UNCHANGED <<held, hdr>>
       ELSE /\ stk' = [stk EXCEPT ![c] = below \o <<Frame(top.kind, TRUE, "sent")>>]
            /\ hdr' = IF HasTokenHeader(top) THEN [hdr EXCEPT ![c] = r.tok] ELSE hdr
            /\ call' = [call EXCEPT ![c] =
                          [noted EXCEPT !.reissues = @ + 1, !.fresh = r.tok,
                                        !.freshSrc = r.src]]
            /\ gt' = [gt EXCEPT ![c] =
                         [GtReturned(r, now, ConfigHash(c), 0, NoneTok)
                             EXCEPT !.diskOk =
                                DiskUsable(disk, now, ConfigHash(c))]]
            /\ held' = held

\* json_request once request() has returned a response
Respond(c) ==
    /\ stk[c] # <<>>
    /\ LET n == Len(stk[c])
           top == stk[c][n]
           below == SubSeq(stk[c], 1, n - 1)
       IN
       /\ top.phase = "sent"
       /\ \E code \in ServerCodes(c, top) :
          \E data \in ServerData(top, code), saved \in BOOLEAN :
             LET br == JsonBranch(code, top.retried) IN
             CASE br = "return" /\ top.kind = "bus" -> ReturnOk(c)
               [] br = "return" /\ top.kind = "tok" ->
                      FinishRefresh(c, below, data, saved)
               [] br = "refresh" -> AuthRefresh(c, top, below, code)
               [] OTHER -> Raise(c, br, code)
    /\ UNCHANGED notAuth
    /\ UNCHANGED <<live, now, ticks, cfg>>

NextAuth ==
    \/ Tick
    \/ ServerInvalidate
    \/ DiskDamaged
    \/ OtherProcessRefresh
    \/ \E c \in live : Restart(c)
    \/ \E c \in live : ClientGetToken(c)
    \/ \E c \in live : StartRequest(c)
    \/ \E c \in live : RequestRaises(c)
    \/ \E c \in live : Respond(c)

(***************************************************************************)
(* RateLimiter.  Times are in half seconds, the unit of the smallest       *)
(* interval.                                                               *)
(***************************************************************************)
RlThreads == {1, 2}

\* bounds of the model
RlHorizon == 12
RlMaxCalls == 3

\* the categories of the INTERVALS table, and one category it does not list
Categories == {"lip_sync", "voice_clone", "tts", "default", "other"}

\* INTERVALS: 6.0 s, 6.0 s, 0.5 s, 1.0 s
Intervals ==
    [lip_sync |-> 12, voice_clone |-> 12, tts |-> 1, default |-> 2]

\* self.INTERVALS.get(category, self.INTERVALS["default"])
Interval(cat) ==
    IF cat \in DOMAIN Intervals THEN Intervals[cat] ELSE Intervals["default"]

\* the clock starts later than any interval after time 0 (the epoch)
RlStart == Interval("lip_sync")

\* sleeping half a second too little (a faulty variant of WaitTime)
WaitTimeShort(interval, elapsed) == interval - elapsed - 1

\* sleeping for the time already elapsed (a faulty variant of WaitTime)
WaitTimeElapsed(interval, elapsed) == elapsed

\* wait_time = interval - elapsed
WaitTime(interval, elapsed) == interval - elapsed

RlInit ==
    /\ rlLive = {1}
    /\ rlClock = RlStart
    /\ rlTimestamps = [cat \in Categories |-> 0]
    /\ rlPc = [t \in RlThreads |-> "idle"]
    /\ rlCat = [t \in RlThreads |-> "default"]
    /\ rlWake = [t \in RlThreads |-> 0]
    /\ rlRead = [t \in RlThreads |-> 0]
    /\ rlPrev = [cat \in Categories |-> 0]
    /\ rlCalls = 0

\* time passes
RlTick ==
    /\ rlClock < RlStart + RlHorizon
    /\ rlClock' = rlClock + 1
    /\ UNCHANGED <<rlLive, rlTimestamps, rlPc, rlCat, rlWake, rlRead, rlPrev,
                   rlCalls>>
    /\ UNCHANGED notRl

\* wait(category) up to time.sleep: read the last timestamp, compare
WaitBegin(t) ==
    /\ rlPc[t] = "idle"
    /\ rlCalls < RlMaxCalls
    /\ \E cat \in Categories :
          LET interval == Interval(cat)
              last_time == rlTimestamps[cat]
              elapsed == rlClock - last_time
          IN
          /\ rlCat' = [rlCat EXCEPT ![t] = cat]
          /\ rlRead' = [rlRead EXCEPT ![t] = last_time]
          /\ IF elapsed < interval
             THEN /\ rlPc' = [rlPc EXCEPT ![t] = "sleep"]
                  /\ rlWake' = [rlWake EXCEPT ![t] = rlClock + WaitTime(interval, elapsed)]
             ELSE /\ rlPc' = [rlPc EXCEPT ![t] = "stamp"]
                  /\ rlWake' = [rlWake EXCEPT ![t] = rlClock]
    /\ rlCalls' = rlCalls + 1
    /\ UNCHANGED <<rlLive, rlClock, rlTimestamps, rlPrev>>
    /\ UNCHANGED notRl

\* time.sleep(wait_time) returns, not before wait_time has passed
WaitWake(t) ==
    /\ rlPc[t] = "sleep"
    /\ rlClock >= rlWake[t]
    /\ rlPc' = [rlPc EXCEPT ![t] = "stamp"]
    /\ UNCHANGED <<rlLive, rlClock, rlTimestamps, rlCat, rlWake, rlRead, rlPrev,
                   rlCalls>>
    /\ UNCHANGED notRl

\* self._timestamps[category] = time.time(), and wait returns
WaitStamp(t) ==
    /\ rlPc[t] = "stamp"
    /\ rlPrev' = [rlPrev EXCEPT ![rlCat[t]] = rlTimestamps[rlCat[t]]]
    /\ rlTimestamps' = [rlTimestamps EXCEPT ![rlCat[t]] = rlClock]
    /\ rlPc' = [rlPc EXCEPT ![t] = "idle"]
    /\ rlCat' = [rlCat EXCEPT ![t] = "default"]
    /\ rlWake' = [rlWake EXCEPT ![t] = 0]
    /\ rlRead' = [rlRead EXCEPT ![t] = 0]
    /\ UNCHANGED <<rlLive, rlClock, rlCalls>>
    /\ UNCHANGED notRl

NextRl ==
    \/ RlTick
    \/ \E t \in rlLive : WaitBegin(t)
    \/ \E t \in rlLive : WaitWake(t)
    \/ \E t \in rlLive : WaitStamp(t)

\* a second thread starts to use the same RateLimiter, before its first call
RlSpawn ==
    /\ rlLive = {1}
    /\ rlCalls = 0
    /\ rlLive' = RlThreads
    /\ UNCHANGED <<rlClock, rlTimestamps, rlPc, rlCat, rlWake, rlRead, rlPrev,
                   rlCalls>>
    /\ UNCHANGED notRl

\* the rate limiter shared by threads
NextRl2 == NextRl \/ RlSpawn

(***************************************************************************)
(* ApiClient.request: the retry loop                                       *)
(***************************************************************************)
\* bound of the model: the largest max_retries a call is made with
RqMaxRetries == 4

\* how one HTTP attempt ends: a response with a good status, a
\* requests ConnectionError, a requests Timeout, an HTTPError raised by
\* raise_for_status, any other exception
Outcomes == {"ok", "conn", "timeout", "http", "other"}
\* the two except clauses that retry
Retriable == {"conn", "timeout"}

NoExc == "none"
RqOutcome(kind, wrapped) == [kind |-> kind, wrapped |-> wrapped]

\* retrying while attempt <= max_retries (a faulty variant of AfterAttempt)
AfterAttemptOffByOne(outcome, attempt, maxr) ==
    CASE outcome = "ok" -> "return"
      [] outcome \in Retriable -> IF attempt <= maxr THEN "sleep" ELSE "exhausted"
      [] OTHER -> "propagate"

\* retrying on an HTTP error status too (a faulty variant of AfterAttempt)
AfterAttemptRetryHttp(outcome, attempt, maxr) ==
    CASE outcome = "ok" -> "return"
      [] outcome \in Retriable \cup {"http"} ->
             IF attempt < maxr THEN "sleep" ELSE "exhausted"
      [] OTHER -> "propagate"

\* the body of the for loop: what follows an attempt that ended in `outcome`
AfterAttempt(outcome, attempt, maxr) ==
    CASE outcome = "ok" -> "return"
      [] outcome \in Retriable -> IF attempt < maxr THEN "sleep" ELSE "exhausted"
      [] OTHER -> "propagate"

\* waiting again before every retry (a faulty variant of LimiterCalls)
LimiterCallsPerAttempt(iterations) == IF iterations > 1 THEN iterations ELSE 1

\* the calls of _rate_limiter.wait a call of request has made once its loop
\* has started `iterations` iterations: the one before the loop
LimiterCalls(iterations) == 1

RqInit ==
    /\ rqPc = "idle"
    /\ rqMax = 0
    /\ rqAttempt = 0
    /\ rqHist = <<>>
    /\ rqSleeps = 0
    /\ rqWaits = 0
    /\ rqLast = NoExc
    /\ rqResult = RqOutcome("none", NoExc)

\* request(...) is called: the rate limiter wait, then the loop is entered
\* (with max_retries = 0 the loop body never runs and the call raises)
RequestBegin ==
    /\ rqPc = "idle"
    /\ \E maxr \in 0..RqMaxRetries :
          /\ rqMax' = maxr
          /\ rqPc' = IF maxr >= 1 THEN "attempt" ELSE "raised"
          /\ rqResult' = IF maxr >= 1 THEN RqOutcome("none", NoExc)
                                     ELSE RqOutcome("ConnectionError", NoExc)
    /\ rqAttempt' = 1
    /\ rqHist' = <<>>
    /\ rqSleeps' = 0
    /\ rqWaits' = LimiterCalls(Len(rqHist'))
    /\ rqLast' = NoExc
    /\ UNCHANGED notRq

\* one pass of the loop body: requests.request, raise_for_status, the excepts
Attempt ==
    /\ rqPc = "attempt"
    /\ \E outcome \in Outcomes :
          LET then == AfterAttempt(outcome, rqAttempt, rqMax)
              last == IF outcome \in Retriable THEN outcome ELSE rqLast
          IN
          /\ rqHist' = Append(rqHist, outcome)
          /\ rqWaits' = LimiterCalls(Len(rqHist'))
          /\ rqLast' = last
          /\ CASE then = "return" ->
                    /\ rqPc' = "returned"
                    /\ rqResult' = RqOutcome("response", NoExc)
                    /\ UNCHANGED rqSleeps
               [] then = "sleep" ->
                    /\ rqPc' = "sleeping"
                    /\ rqSleeps' = rqSleeps + 1
                    /\ UNCHANGED rqResult
               [] then = "exhausted" ->
                    /\ rqPc' = "raised"
                    /\ rqResult' = RqOutcome("ConnectionError", last)
                    /\ UNCHANGED rqSleeps
               [] OTHER ->
                    /\ rqPc' = "raised"
                    /\ rqResult' = RqOutcome(outcome, NoExc)
                    /\ UNCHANGED rqSleeps
    /\ UNCHANGED <<rqMax, rqAttempt>>
    /\ UNCHANGED notRq

\* time.sleep(retry_delay) is over: the next iteration of the loop
RetrySlept ==
    /\ rqPc = "sleeping"
    /\ rqAttempt' = rqAttempt + 1
    /\ rqPc' = IF rqAttempt + 1 <= rqMax THEN "attempt" ELSE "raised"
    /\ rqResult' = IF rqAttempt + 1 <= rqMax THEN rqResult
                    ELSE RqOutcome("ConnectionError", rqLast)
    /\ UNCHANGED <<rqMax, rqHist, rqSleeps, rqWaits, rqLast>>
    /\ UNCHANGED notRq

\* the caller is back in control
RequestDone ==
    /\ rqPc \in {"returned", "raised"}
    /\ rqPc' = "idle"
    /\ UNCHANGED <<rqMax, rqAttempt, rqHist, rqSleeps, rqWaits, rqLast, rqResult>>
    /\ UNCHANGED notRq

NextRq == RequestBegin \/ Attempt \/ RetrySlept \/ RequestDone

(***************************************************************************)
(* VoiceCloneCache                                                         *)
(***************************************************************************)
VcInstances == {1, 2}

\* file_content_hash: md5 hex digests, all of one length
Hashes == { <<"a">>, <<"b">> }
\* model_type, any string
Models == { <<"m">>, <<"b", "_", "m">> }
\* the (hash, model) pairs the operations are called with
KeyPairs == (Hashes \X Models) \ { << <<"b">>, <<"b", "_", "m">> >> }
\* voice ids ("" included), and the None that get returns for a miss
VoiceIds == {"", "v1"}
NoneId == "<None>"

\* _make_key: f"{file_hash}_{model_type}"
MakeKey(file_hash, model_type) == file_hash \o <<"_">> \o model_type

\* the dict of a cache: a function from the keys it holds to their entries
\* (created_at is left out: nothing reads it)
EmptyMap == [k \in {} |-> [voice_id |-> "", model_type |-> <<>>]]
Entry(voice_id, model_type) == [voice_id |-> voice_id, model_type |-> model_type]

\* _cache of an instance: None before the first _load
NotLoaded == [loaded |-> FALSE, map |-> EmptyMap]
Loaded(map) == [loaded |-> TRUE, map |-> map]

\* the cache file: missing, not parseable, or the dict last saved
VcNoFile == [kind |-> "missing", map |-> EmptyMap]
VcBadFile == [kind |-> "corrupt", map |-> EmptyMap]
VcSaved(map) == [kind |-> "ok", map |-> map]

\* _load: only when _cache is None; a missing or unreadable file gives {}
CacheLoad(m, f) ==
    IF m.loaded THEN m
    ELSE IF f.kind = "ok" THEN Loaded(f.map) ELSE Loaded(EmptyMap)

\* get: self._cache.get(key), then entry.get("voice_id")
CacheGet(map, key) ==
    IF key \in DOMAIN map THEN map[key].voice_id ELSE NoneId

\* keeping no other entry (a faulty variant of CachePut)
CachePutAlone(map, key, entry) == [k \in {key} |-> entry]

\* keeping the entry a key already has (a faulty variant of CachePut)
CachePutKeepFirst(map, key, entry) ==
    IF key \in DOMAIN map THEN map
    ELSE [k \in DOMAIN map \cup {key} |-> IF k = key THEN entry ELSE map[k]]

\* put: self._cache[key] = {...}
CachePut(map, key, entry) ==
    [k \in DOMAIN map \cup {key} |-> IF k = key THEN entry ELSE map[k]]

\* clearing the dict (a faulty variant of CacheRemove)
CacheRemoveAll(map, key) == [k \in {} |-> map[k]]

\* remove: del self._cache[key]
CacheRemove(map, key) == [k \in DOMAIN map \ {key} |-> map[k]]

\* the last operation of an instance; wrote: whether its _save wrote the
\* file ("written"), failed ("failed") or was not called ("none"); lost:
\* whether the write dropped from the file an entry of another key
VcOp(op, h, m, id) ==
    [op |-> op, hash |-> h, model |-> m, id |-> id, wrote |-> "none",
     lost |-> FALSE]

\* writing map over file f drops an entry of a key other than key
Drops(f, map, key) ==
    f.kind = "ok" /\ \E k \in DOMAIN f.map \ {key} : k \notin DOMAIN map
VcNoOp == VcOp("none", <<>>, <<>>, NoneId)

VcInit ==
    /\ vcLive = {1}
    /\ vcFile = VcNoFile
    /\ vcMem = [i \in VcInstances |-> NotLoaded]
    /\ vcLast = [i \in VcInstances |-> VcNoOp]
    /\ vcOps = 0

\* bound of the model: the operations followed once two instances are in use
VcMaxOps == 3

VcMayOperate == vcLive = {1} \/ vcOps < VcMaxOps
VcOpsAfter == IF vcLive = {1} THEN vcOps ELSE vcOps + 1

\* VoiceCloneCache.get
Get(i) ==
    /\ VcMayOperate
    /\ vcOps' = VcOpsAfter
    /\ \E hm \in KeyPairs :
          LET h == hm[1]
              m == hm[2]
              c == CacheLoad(vcMem[i], vcFile)
          IN
          /\ vcMem' = [vcMem EXCEPT ![i] = c]
          /\ vcLast' = [vcLast EXCEPT ![i] =
                          VcOp("get", h, m, CacheGet(c.map, MakeKey(h, m)))]
    /\ UNCHANGED <<vcLive, vcFile>>
    /\ UNCHANGED notVc

\* VoiceCloneCache.put; _save may fail, which is logged and swallowed
Put(i) ==
    /\ VcMayOperate
    /\ vcOps' = VcOpsAfter
    /\ \E hm \in KeyPairs, id \in VoiceIds, saved \in BOOLEAN :
          LET h == hm[1]
              m == hm[2]
              c == CacheLoad(vcMem[i], vcFile)
              map == CachePut(c.map, MakeKey(h, m), Entry(id, m))
          IN
          /\ vcMem' = [vcMem EXCEPT ![i] = Loaded(map)]
          /\ vcFile' = IF saved THEN VcSaved(map) ELSE vcFile
          /\ vcLast' = [vcLast EXCEPT ![i] =
                          [VcOp("put", h, m, id) EXCEPT
                              !.wrote = IF saved THEN "written" ELSE "failed",
                              !.lost = saved /\ Drops(vcFile, map, MakeKey(h, m))]]
    /\ UNCHANGED vcLive
    /\ UNCHANGED notVc

\* VoiceCloneCache.remove: deletes and saves only when the key is there
Remove(i) ==
    /\ VcMayOperate
    /\ vcOps' = VcOpsAfter
    /\ \E hm \in KeyPairs, saved \in BOOLEAN :
          LET h == hm[1]
              m == hm[2]
              c == CacheLoad(vcMem[i], vcFile)
              key == MakeKey(h, m)
              map == CacheRemove(c.map, key)
          IN
          /\ vcMem' = [vcMem EXCEPT ![i] =
                         IF key \in DOMAIN c.map THEN Loaded(map) ELSE c]
          /\ vcFile' = IF key \in DOMAIN c.map /\ saved THEN VcSaved(map) ELSE vcFile
          /\ vcLast' = [vcLast EXCEPT ![i] =
                          [VcOp("remove", h, m, NoneId) EXCEPT
                              !.wrote =
                                 IF key \notin DOMAIN c.map THEN "none"
                                 ELSE IF saved THEN "written" ELSE "failed",
                              !.lost = key \in DOMAIN c.map /\ saved
                                          /\ Drops(vcFile, map, key)]]
    /\ UNCHANGED vcLive
    /\ UNCHANGED notVc

\* VoiceCloneCache.__init__ in a new process
VcNew(i) ==
    /\ vcMem[i].loaded
    /\ vcMem' = [vcMem EXCEPT ![i] = NotLoaded]
    /\ vcLast' = [vcLast EXCEPT ![i] = VcNoOp]
    /\ UNCHANGED <<vcLive, vcFile, vcOps>>
    /\ UNCHANGED notVc

\* the cache file is damaged (a torn write)
VcFileDamaged ==
    /\ vcFile.kind = "ok"
    /\ vcFile' = VcBadFile
    /\ UNCHANGED <<vcLive, vcMem, vcLast, vcOps>>
    /\ UNCHANGED notVc

NextVc ==
    \/ \E i \in vcLive : Get(i)
    \/ \E i \in vcLive : Put(i)
    \/ \E i \in vcLive : Remove(i)
    \/ \E i \in vcLive : VcNew(i)
    \/ VcFileDamaged

\* a second VoiceCloneCache is constructed on the same cache directory,
\* before the first is used
VcSpawn ==
    /\ vcLive = {1}
    /\ vcLast[1] = VcNoOp /\ ~vcMem[1].loaded
    /\ vcLive' = VcInstances
    /\ UNCHANGED <<vcFile, vcMem, vcLast, vcOps>>
    /\ UNCHANGED notVc

\* two caches on one directory
NextVc2 == NextVc \/ VcSpawn

(***************************************************************************)
(* UploadProgress                                                          *)
(***************************************************************************)
\* bound of the model: the largest buffer
UpMaxTotal == 7

\* int(self._pos / self._total * 100); the float product equals the exact
\* quotient for every buffer of the model (for some larger sizes it is one
\* less, and still non-decreasing in _pos)
\* int() truncates towards zero
Pct(pos, total) ==
    IF pos >= 0 THEN (pos * 100) \div total
    ELSE -(((-pos) * 100) \div total)

\* reporting at 20-point steps only (a faulty variant of ShouldReport)
ShouldReportStepsOnly(pct, last_pct) == pct >= last_pct + 20

\* if pct >= self._last_pct + 20 or pct >= 100
ShouldReport(pct, last_pct) == pct >= last_pct + 20 \/ pct >= 100

\* the read position after read(size): -1 reads all that is left
EndPos(pos, size, total) ==
    IF size = -1 THEN total
    ELSE IF pos + size < total THEN pos + size ELSE total

UpInit ==
    /\ upTotal = 0
    /\ upPos = 0
    /\ upLastPct = -20
    /\ upCalls = <<>>
    /\ upReads = FALSE
    /\ putPc = "idle"
    /\ putAttempt = 0
    /\ putFrom = 0

\* UploadProgress(data, desc, on_progress) over a buffer of any length
UpNew ==
    /\ \E n \in 0..UpMaxTotal : upTotal' = n
    /\ upPos' = 0
    /\ upLastPct' = -20
    /\ upCalls' = <<>>
    /\ upReads' = FALSE
    /\ UNCHANGED putVars
    /\ UNCHANGED notUp

\* the body of read(size): b"" at the end of the buffer, else the chunk,
\* the new position and the progress report
ReadBody(size) ==
    IF upPos >= upTotal
    THEN UNCHANGED <<upPos, upLastPct, upCalls>>
    ELSE LET end == EndPos(upPos, size, upTotal)
             pct == Pct(end, upTotal)
         IN
         /\ upPos' = end
         /\ IF upTotal > 0 /\ ShouldReport(pct, upLastPct)
            THEN /\ upLastPct' = pct
                 /\ upCalls' = Append(upCalls, pct)
            ELSE UNCHANGED <<upLastPct, upCalls>>

\* read(size), size -1 (or None), a byte count, or a negative count, with
\* which min(self._pos + size, self._total) moves the position backwards
Read ==
    /\ \E size \in -2..upTotal :
          /\ upPos + size >= -UpMaxTotal
          /\ ReadBody(size)
    /\ upReads' = TRUE
    /\ UNCHANGED <<upTotal, putVars>>
    /\ UNCHANGED notUp

NextUp == UpNew \/ Read

(***************************************************************************)
(* The PUT of upload_file: request() with max_retries=2, its data the one  *)
(* UploadProgress object made before the call.  The HTTP layer sends the   *)
(* body by calling read(blocksize) until it returns b"".                   *)
(***************************************************************************)
\* bound of the model: the bytes the HTTP layer asks for in one read
PutBlock == 3

\* max_retries=2
PutMaxRetries == 2

\* upload_file from the file read to the first attempt of the PUT:
\* upload_body = UploadProgress(file_data, ...) over a non-empty file
PutBegin ==
    /\ putPc \in {"idle", "uploaded", "raised"}
    /\ \E n \in 1..UpMaxTotal : upTotal' = n
    /\ upPos' = 0
    /\ upLastPct' = -20
    /\ upCalls' = <<>>
    /\ upReads' = FALSE
    /\ putPc' = "send"
    /\ putAttempt' = 1
    /\ putFrom' = 0
    /\ UNCHANGED notUp

\* requests.request sends the next block of the body
PutRead ==
    /\ putPc = "send"
    /\ upPos < upTotal
    /\ ReadBody(PutBlock)
    /\ upReads' = TRUE
    /\ UNCHANGED <<upTotal, putVars>>
    /\ UNCHANGED notUp

\* requests.request raises ConnectionError or Timeout: while connecting,
\* while the body is sent, or while the response is awaited.  request()
\* sleeps and calls requests.request again with the same kwargs, or gives up
PutFails ==
    /\ putPc = "send"
    /\ IF putAttempt < PutMaxRetries
       THEN /\ putAttempt' = putAttempt + 1
            /\ putFrom' = upPos
            /\ putPc' = "send"
       ELSE /\ putPc' = "raised"
            /\ UNCHANGED <<putAttempt, putFrom>>
    /\ UNCHANGED <<upTotal, upPos, upLastPct, upCalls, upReads>>
    /\ UNCHANGED notUp

\* the storage service answers: an error status at any time
\* (raise_for_status raises HTTPError), 200 once the body was sent to the
\* last block read returned
PutResponds ==
    /\ putPc = "send"
    /\ \E status \in {200, 403} :
          IF status = 200
          THEN upPos >= upTotal /\ putPc' = "uploaded"
          ELSE putPc' = "raised"
    /\ UNCHANGED <<putAttempt, putFrom>>
    /\ UNCHANGED <<upTotal, upPos, upLastPct, upCalls, upReads>>
    /\ UNCHANGED notUp

NextPut == PutBegin \/ PutRead \/ PutFails \/ PutResponds

(***************************************************************************)
(* check_billing_error.  Messages are sequences of characters, so that    *)
(* `kw in msg` is modelled as the search for a substring.                  *)
(***************************************************************************)
\* BILLING_KEYWORDS, each character written by its reading
BILLING_KEYWORDS == {
    <<"kou", "fei", "shi", "bai">>,
    <<"yu", "e", "bu", "zu">>,
    <<"chan", "dou", "bu", "zu">>,
    <<"chan", "dou", "yu", "e">>,
    <<"qian", "fei">> }

\* server messages: empty, without a keyword, with the characters of a
\* keyword apart or in another order, with a keyword inside other text
Msgs == {
    <<>>,
    <<"x">>,
    <<"qian", "x", "fei">>,
    <<"x", "qian", "fei", "x">>,
    <<"chan", "dou", "bu", "zu">>,
    <<"x", "chan", "dou", "yu", "e">>,
    <<"kou", "fei", "shi", "bai", "x">>,
    <<"yu", "e", "bu", "zu">> }

\* kw in msg
Contains(msg, kw) ==
    \E i \in 1..(Len(msg) - Len(kw) + 1) : SubSeq(msg, i, i + Len(kw) - 1) = kw

\* matching a keyword at the start of the message only (a faulty variant
\* of IsBilling)
IsBillingPrefix(msg) ==
    msg # <<>> /\ \E kw \in BILLING_KEYWORDS :
        Len(kw) <= Len(msg) /\ SubSeq(msg, 1, Len(kw)) = kw

\* check_billing_error raises: `if not msg: return`, then
\* any(kw in msg for kw in BILLING_KEYWORDS)
IsBilling(msg) ==
    msg # <<>> /\ \E kw \in BILLING_KEYWORDS : Contains(msg, kw)

(***************************************************************************)
(* LipSyncService: create and _poll                                        *)
(***************************************************************************)
\* bound of the model: a slow request (rate-limiter wait, timeouts and
\* retries) takes LsSlowSleeps times the polling sleep
LsSlowSleeps == 18

\* max_wait: int = 1800
LsMaxWait == 1800

\* time.sleep(5)
LsPollSleep == 5

\* how long a request may take
LsDurations == {0, LsSlowSleeps * LsPollSleep}

\* task ids of a job-creation response; NoneId when it carries no data
LsTaskIds == {"t1", NoneId}

\* the status, progress, video_url and msg of a job-detail response
LsStatuses == {0, 10, 20, 30, 5}
LsProgress == {0, 50}
LsUrls == {"", "u1", "u2"}
LsMsgs == {<<>>, <<"x">>, <<"x", "qian", "fei", "x">>}

\* time.time() - start >= max_wait (a faulty variant of TimedOut)
TimedOutInclusive(clock, start) == clock - start >= LsMaxWait

\* if time.time() - start > max_wait
TimedOut(clock, start) == clock - start > LsMaxWait

\* taking every status but 0 and 10 for a failure (a faulty variant of
\* PollBranch)
PollBranchStrict(status, video_url, msg) ==
    IF status = 20
    THEN IF video_url = "" THEN "no_url" ELSE "return"
    ELSE IF status \in {0, 10} THEN "sleep"
         ELSE IF IsBilling(msg) THEN "billing" ELSE "failed"

\* what _poll does with a status response
PollBranch(status, video_url, msg) ==
    IF status = 20
    THEN IF video_url = "" THEN "no_url" ELSE "return"
    ELSE IF status = 30
         THEN IF IsBilling(msg) THEN "billing" ELSE "failed"
         ELSE "sleep"

LsNoResult == [kind |-> "none", video_url |-> "", task_id |-> ""]

\* LipSyncResult(video_url=video_url, task_id=task_id, ...)
LipSyncResult(video_url, task_id) ==
    [kind |-> "handle", video_url |-> video_url, task_id |-> task_id]

LsError(kind) == [kind |-> kind, video_url |-> "", task_id |-> ""]

LsNoHist == [polling |-> FALSE, clean |-> TRUE, seen20 |-> FALSE,
             url20 |-> "", after |-> FALSE, status |-> -1, msg |-> <<>>,
             run |-> 0, uploads |-> <<>>, job |-> FALSE, queried |-> FALSE,
             late |-> FALSE]

\* status 20 returns or raises, status 30 raises: the job is over
LsTerminal == {20, 30}


\* how upload_file ends: it returns once the file status is 1 (synced), it
\* raises the file-sync TimeoutError, or it raises anything else
UploadOutcomes == {"synced", "timeout", "failed"}

\* going on whatever the upload did (a faulty variant of AfterUpload)
AfterUploadAnyway(which, outcome) ==
    IF which = "video" THEN "audio" ELSE "job"

\* where create is after upload_file(video_path, ...) or
\* upload_file(audio_path, ...): an exception of upload_file leaves create
AfterUpload(which, outcome) ==
    IF outcome # "synced" THEN "raised"
    ELSE IF which = "video" THEN "audio" ELSE "job"

\* the upload_file call for `which`, and what create does next
LsUpload(which) ==
    \E outcome \in UploadOutcomes :
        LET then == AfterUpload(which, outcome) IN
        /\ lsHist' = [lsHist EXCEPT !.uploads = Append(@, <<which, outcome>>)]
        /\ lsPc' = then
        /\ lsResult' = IF then = "raised" THEN LsError("upload") ELSE lsResult
        /\ lsCb' = CASE outcome # "synced" -> lsCb
                      [] which = "video" -> <<"upload_audio", 0>>
                      [] OTHER -> <<"synthesis", 0>>

LsInit ==
    /\ lsPc = "idle"
    /\ lsClock = 0
    /\ lsStart = 0
    /\ lsTask = ""
    /\ lsLastStatus = -1
    /\ lsLastProgress = -1
    /\ lsCb = <<"none", 0>>
    /\ lsResult = LsNoResult
    /\ lsHist = LsNoHist

\* create raises: the operation is over
LsRaise(kind) ==
    /\ lsPc' = "raised"
    /\ lsResult' = LsError(kind)

\* create(video_path, audio_path, ...), up to the first upload
Create ==
    /\ lsPc \in {"idle", "returned", "raised"}
    /\ svc \in {"none", "lip_sync"}
    /\ svc' = "lip_sync"
    /\ lsClock' = 0
    /\ lsStart' = 0
    /\ lsTask' = ""
    /\ lsLastStatus' = -1
    /\ lsLastProgress' = -1
    /\ lsHist' = LsNoHist
    /\ \E video, audio \in BOOLEAN :
          IF ~video \/ ~audio
          THEN /\ LsRaise("FileNotFoundError")
               /\ lsCb' = <<"none", 0>>
          ELSE /\ lsPc' = "video"
               /\ lsResult' = LsNoResult
               /\ lsCb' = <<"upload_video", 0>>
    /\ UNCHANGED othersLs

\* video_result = self._api.upload_file(video_path, "lip_sync_video", ...)
UploadVideo ==
    /\ lsPc = "video"
    /\ LsUpload("video")
    /\ UNCHANGED <<lsClock, lsStart, lsTask, lsLastStatus, lsLastProgress>>
    /\ UNCHANGED notLs

\* audio_result = self._api.upload_file(audio_path, "lip_sync_audio", ...)
UploadAudio ==
    /\ lsPc = "audio"
    /\ LsUpload("audio")
    /\ UNCHANGED <<lsClock, lsStart, lsTask, lsLastStatus, lsLastProgress>>
    /\ UNCHANGED notLs

\* the job-creation json_request, task_id = result.get("data"), and the
\* entry of _poll: start = time.time()
CreateJob ==
    /\ lsPc = "job"
    /\ \E d \in LsDurations, ok \in BOOLEAN, id \in LsTaskIds :
          /\ lsClock' = lsClock + d
          /\ IF ok
             THEN /\ lsTask' = id
                  /\ lsStart' = lsClock'
                  /\ lsPc' = "check"
                  /\ lsHist' = [lsHist EXCEPT !.polling = TRUE, !.job = TRUE]
                  /\ UNCHANGED lsResult
             ELSE /\ LsRaise("request")
                  /\ lsHist' = [lsHist EXCEPT !.job = TRUE]
                  /\ UNCHANGED <<lsTask, lsStart>>
    /\ UNCHANGED <<lsLastStatus, lsLastProgress, lsCb>>
    /\ UNCHANGED notLs

\* the head of the polling loop
PollCheck ==
    /\ lsPc = "check"
    /\ IF TimedOut(lsClock, lsStart)
       THEN LsRaise("TimeoutError")
       ELSE /\ lsPc' = "query"
            /\ UNCHANGED lsResult
    /\ UNCHANGED <<lsClock, lsStart, lsTask, lsLastStatus, lsLastProgress,
                   lsCb, lsHist>>
    /\ UNCHANGED notLs

\* one status query: the json_request and what _poll does with its result
PollQuery ==
    /\ lsPc = "query"
    /\ \E ok \in BOOLEAN :
       \E status \in IF ok THEN LsStatuses ELSE {0},
          progress \in IF ok THEN LsProgress ELSE {0} :
       \E video_url \in IF status = 20 THEN LsUrls ELSE {""},
          msg \in IF status = 30 THEN LsMsgs ELSE {<<>>},
          d \in IF status \in {20, 30} THEN {0} ELSE LsDurations :
          /\ lsClock' = lsClock + d
          /\ IF ~ok
             THEN \* json_request raised: nothing in _poll catches it
                  /\ LsRaise("request")
                  /\ lsHist' = [lsHist EXCEPT !.clean = FALSE,
                                              !.after = lsHist.seen20,
                                              !.run = @ + 1,
                                              !.queried = TRUE,
                                              !.late = @ \/ TimedOut(lsClock, lsStart)]
                  /\ UNCHANGED <<lsLastStatus, lsLastProgress, lsCb>>
             ELSE /\ lsHist' = [lsHist EXCEPT
                                  !.clean = lsHist.clean /\ status \in {0, 10, 20},
                                  !.seen20 = lsHist.seen20 \/ status = 20,
                                  !.url20 = IF status = 20 THEN video_url
                                            ELSE lsHist.url20,
                                  !.after = lsHist.seen20,
                                  !.status = status,
                                  !.msg = msg,
                                  !.run = 0,
                                  !.queried = TRUE,
                                  !.late = @ \/ TimedOut(lsClock, lsStart)]
                  /\ IF status # lsLastStatus \/ progress # lsLastProgress
                     THEN /\ lsLastStatus' = status
                          /\ lsLastProgress' = progress
                     ELSE UNCHANGED <<lsLastStatus, lsLastProgress>>
                  /\ lsCb' =
                        IF PollBranch(status, video_url, msg) = "return"
                        THEN <<"done", 100>>
                        ELSE IF status # lsLastStatus \/ progress # lsLastProgress
                             THEN <<"synthesis", progress>>
                             ELSE lsCb
                  /\ LET b == PollBranch(status, video_url, msg) IN
                     CASE b = "return" ->
                            \* _poll returns; create reports ("done", 100) and
                            \* returns the handle
                            /\ lsPc' = "returned"
                            /\ lsResult' = LipSyncResult(video_url, lsTask)
                       [] b = "no_url" -> LsRaise("RuntimeError")
                       [] b = "billing" -> LsRaise("RuntimeError:billing")
                       [] b = "failed" -> LsRaise("RuntimeError")
                       [] OTHER ->
                            /\ lsPc' = "sleep"
                            /\ UNCHANGED lsResult
    /\ UNCHANGED <<lsStart, lsTask>>
    /\ UNCHANGED notLs

\* time.sleep(5), then the head of the loop again
PollSleep ==
    /\ lsPc = "sleep"
    /\ lsClock' = lsClock + LsPollSleep
    /\ lsPc' = "check"
    /\ UNCHANGED <<lsStart, lsTask, lsLastStatus, lsLastProgress, lsCb,
                   lsResult, lsHist>>
    /\ UNCHANGED notLs

\* the caller has the result or the exception: create is over
LsDone ==
    /\ lsPc \in {"returned", "raised"}
    /\ lsPc' = "idle"
    /\ lsClock' = 0
    /\ lsStart' = 0
    /\ lsTask' = ""
    /\ lsLastStatus' = -1
    /\ lsLastProgress' = -1
    /\ lsCb' = <<"none", 0>>
    /\ lsResult' = LsNoResult
    /\ lsHist' = LsNoHist
    /\ UNCHANGED notLs

NextLs ==
    \/ LsDone
    \/ Create
    \/ UploadVideo
    \/ UploadAudio
    \/ CreateJob
    \/ PollCheck
    \/ PollQuery
    \/ PollSleep
(***************************************************************************)
(* TTSService: synthesize and _poll                                        *)
(***************************************************************************)
\* bounds of the model: the status queries followed in one operation, and
\* the seconds a slow request takes
TtsMaxQueries == 8
TtsSlow == 300

\* max_wait: int = 600
TtsMaxWait == 600

\* if len(text) > 4000
TtsMaxText == 4000

\* consecutive_errors >= 5
TtsMaxErrors == 5

\* time.sleep(5) after a failed query or an unknown status
TtsErrorSleep == 5

\* texts, by their length and whether text.strip() is empty
TtsTexts ==
    { t \in [len : {0, 1, TtsMaxText, TtsMaxText + 1}, blank : BOOLEAN] :
        t.len = 0 => t.blank }

\* rejecting a text of exactly 4000 characters (a faulty variant of
\* TextValid)
TextValidBelowMax(t) == ~t.blank /\ t.len < TtsMaxText

\* if not text or not text.strip() / if len(text) > 4000
TextValid(t) == ~t.blank /\ t.len <= TtsMaxText

\* no text argument at hand
NoText == [len |-> -1, blank |-> FALSE]

TtsDurations == {0, TtsSlow}
TtsTaskIds == {"t1", "t2"}
\* data["status"]: 1 running, 9 finished, anything else unknown
TtsStatuses == {1, 9, 5}
\* full.get("url", "")
TtsUrls == {"", "a1"}

Min(a, b) == IF a <= b THEN a ELSE b

\* estimated_pct
EstimatedPct(poll_count) ==
    IF poll_count <= 6 THEN Min(90, poll_count * 15)
    ELSE Min(95, 90 + (poll_count - 6))

\* sleep_time = 3 if poll_count <= 10 else 5
SleepTime(poll_count) == IF poll_count <= 10 THEN 3 ELSE 5

\* looking at the result URL before errMsg (a faulty variant of TtsBranch)
TtsBranchUrlFirst(status, err_msg, audio_url) ==
    IF status = 9
    THEN IF audio_url # "" THEN "return"
         ELSE IF err_msg # <<>>
              THEN IF IsBilling(err_msg) THEN "billing" ELSE "failed"
              ELSE "no_url"
    ELSE IF status = 1 THEN "running" ELSE "unknown"

\* what _poll does with a status response
TtsBranch(status, err_msg, audio_url) ==
    IF status = 9
    THEN IF err_msg # <<>>
         THEN IF IsBilling(err_msg) THEN "billing" ELSE "failed"
         ELSE IF audio_url = "" THEN "no_url" ELSE "return"
    ELSE IF status = 1 THEN "running" ELSE "unknown"

\* never resetting the count of failures (a faulty variant of
\* ErrorsAfter)
ErrorsAfterNoReset(errors, ok) == IF ok THEN errors ELSE errors + 1

\* consecutive_errors after a query: 0 after a success, one more after a
\* failure
ErrorsAfter(errors, ok) == IF ok THEN 0 ELSE errors + 1

TtsNoResult == [kind |-> "none", url |-> "", task_id |-> ""]

\* TTSResult(audio_url=audio_url, task_id=task_id, ...)
TTSResult(audio_url, task_id) ==
    [kind |-> "handle", url |-> audio_url, task_id |-> task_id]

TtsError(kind) == [kind |-> kind, url |-> "", task_id |-> ""]

\* how a status query of a polling loop fails: ConnectionError once the
\* retries of request are used up, PermissionError after the refresh retry,
\* RuntimeError for any other non-zero business code
PollFailures == {"ConnectionError", "PermissionError", "RuntimeError"}

\* the failures json_request raises on purpose, not for the network
NonTransient == {"PermissionError", "RuntimeError"}

\* if status == 9: the job is over
TtsTerminal == {9}

\* how long a status query takes: once the queries the model follows one by
\* one are made, the next request lasts as long as the maximum wait
TtsQueryTime(queries, fast) ==
    IF queries < TtsMaxQueries THEN fast ELSE {TtsMaxWait}

\* nothing queried yet: the number of queries, the failed queries in a row
\* at the end, the last response, the exception of the last query,
\* whether a query was issued in a pass entered after the maximum wait, the
\* text argument until the job-creation request has carried it, and whether
\* that request was issued
TtsNoHist == [queries |-> 0, run |-> 0, status |-> -1, url |-> "",
              msg |-> <<>>, fail |-> "none", late |-> FALSE,
              text |-> NoText, job |-> FALSE]

TtsInit ==
    /\ ttsPc = "idle"
    /\ ttsClock = 0
    /\ ttsStart = 0
    /\ ttsTask = ""
    /\ ttsPollCount = 0
    /\ ttsErrors = 0
    /\ ttsCb = <<"none", 0>>
    /\ ttsResult = TtsNoResult
    /\ ttsHist = TtsNoHist

TtsRaise(kind) ==
    /\ ttsPc' = "raised"
    /\ ttsResult' = TtsError(kind)

\* synthesize(voice_id, text, ...): the validation of the text
Synthesize ==
    /\ ttsPc = "idle"
    /\ svc \in {"none", "tts"}
    /\ svc' = "tts"
    /\ \E text \in TtsTexts :
          /\ ttsHist' = [ttsHist EXCEPT !.text = text]
          /\ IF TextValid(text)
             THEN /\ ttsPc' = "job"
                  /\ ttsCb' = <<"tts", 0>>
                  /\ UNCHANGED ttsResult
             ELSE /\ TtsRaise("ValueError")
                  /\ UNCHANGED ttsCb
    /\ UNCHANGED <<ttsClock, ttsStart, ttsTask, ttsPollCount, ttsErrors>>
    /\ UNCHANGED othersTts

\* the job-creation json_request, task_id = result["data"]["task_id"], and
\* the entry of _poll
TtsCreateJob ==
    /\ ttsPc = "job"
    /\ \E ok \in BOOLEAN, id \in TtsTaskIds :
          IF ok
          THEN /\ ttsTask' = id
               /\ ttsStart' = ttsClock
               /\ ttsPc' = "poll"
               /\ UNCHANGED ttsResult
          ELSE /\ TtsRaise("request")
               /\ UNCHANGED <<ttsTask, ttsStart>>
    /\ ttsHist' = [ttsHist EXCEPT !.text = NoText, !.job = TRUE]
    /\ UNCHANGED <<ttsClock, ttsPollCount, ttsErrors, ttsCb>>
    /\ UNCHANGED notTts

\* the head of the loop finds the time over
TtsTimeout ==
    /\ ttsPc = "poll"
    /\ ttsClock - ttsStart > TtsMaxWait
    /\ TtsRaise("TimeoutError")
    /\ UNCHANGED <<ttsClock, ttsStart, ttsTask, ttsPollCount, ttsErrors,
                   ttsCb, ttsHist>>
    /\ UNCHANGED notTts

\* one pass of the loop: the status query raises
TtsQueryFails ==
    /\ ttsPc = "poll"
    /\ ~(ttsClock - ttsStart > TtsMaxWait)
    /\ ttsErrors' = ErrorsAfter(ttsErrors, FALSE)
    /\ \E exc \in PollFailures :
          ttsHist' = [ttsHist EXCEPT
                        !.queries = @ + 1, !.run = @ + 1, !.fail = exc,
                        !.late = @ \/ ttsClock - ttsStart > TtsMaxWait]
    /\ \E d \in TtsQueryTime(ttsHist.queries, TtsDurations) :
          IF ttsErrors' >= TtsMaxErrors
          THEN /\ TtsRaise("RuntimeError:poll")
               /\ ttsClock' = ttsClock + d
          ELSE /\ ttsClock' = ttsClock + d + TtsErrorSleep
               /\ UNCHANGED <<ttsPc, ttsResult>>
    /\ UNCHANGED <<ttsStart, ttsTask, ttsPollCount, ttsCb>>
    /\ UNCHANGED notTts

\* one pass of the loop: the status query returns a response (at once
\* among the queries followed one by one: there the slow requests are those
\* that fail, after timeouts and retries)
TtsQuery ==
    /\ ttsPc = "poll"
    /\ ~(ttsClock - ttsStart > TtsMaxWait)
    /\ ttsErrors' = ErrorsAfter(ttsErrors, TRUE)
    /\ \E status \in TtsStatuses, d \in TtsQueryTime(ttsHist.queries, {0}) :
       \E err_msg \in IF status = 9 THEN Msgs ELSE {<<>>},
          audio_url \in IF status = 9 THEN TtsUrls ELSE {""} :
          LET b == TtsBranch(status, err_msg, audio_url) IN
          /\ ttsHist' = [queries |-> ttsHist.queries + 1, run |-> 0,
                         status |-> status, url |-> audio_url,
                         msg |-> err_msg, fail |-> "none",
                         late |-> ttsHist.late
                                     \/ ttsClock - ttsStart > TtsMaxWait,
                         text |-> ttsHist.text, job |-> ttsHist.job]
          /\ CASE b = "return" ->
                    /\ ttsPc' = "returned"
                    /\ ttsResult' = TTSResult(audio_url, ttsTask)
                    /\ ttsCb' = <<"tts", 100>>
                    /\ ttsClock' = ttsClock + d
                    /\ UNCHANGED ttsPollCount
               [] b = "billing" ->
                    /\ TtsRaise("RuntimeError:billing")
                    /\ ttsClock' = ttsClock + d
                    /\ UNCHANGED <<ttsPollCount, ttsCb>>
               [] b \in {"failed", "no_url"} ->
                    /\ TtsRaise("RuntimeError")
                    /\ ttsClock' = ttsClock + d
                    /\ UNCHANGED <<ttsPollCount, ttsCb>>
               [] b = "running" ->
                    /\ ttsPollCount' = ttsPollCount + 1
                    /\ ttsCb' = <<"tts", EstimatedPct(ttsPollCount')>>
                    /\ ttsClock' = ttsClock + d + SleepTime(ttsPollCount')
                    /\ UNCHANGED <<ttsPc, ttsResult>>
               [] OTHER ->
                    /\ ttsPollCount' = ttsPollCount + 1
                    /\ ttsClock' = ttsClock + d + TtsErrorSleep
                    /\ UNCHANGED <<ttsPc, ttsResult, ttsCb>>
    /\ UNCHANGED <<ttsStart, ttsTask>>
    /\ UNCHANGED notTts

\* the caller has the result or the exception: synthesize is over
TtsDone ==
    /\ ttsPc \in {"returned", "raised"}
    /\ ttsPc' = "idle"
    /\ ttsClock' = 0
    /\ ttsStart' = 0
    /\ ttsTask' = ""
    /\ ttsPollCount' = 0
    /\ ttsErrors' = 0
    /\ ttsCb' = <<"none", 0>>
    /\ ttsResult' = TtsNoResult
    /\ ttsHist' = TtsNoHist
    /\ UNCHANGED notTts

NextTts ==
    \/ Synthesize
    \/ TtsCreateJob
    \/ TtsTimeout
    \/ TtsQueryFails
    \/ TtsQuery
    \/ TtsDone
(***************************************************************************)
(* CicadaClient.clone_voice and VoiceCloneService: clone, _validate_voice, *)
(* _poll_clone.  The service uses the cache of instance 1.                 *)
(***************************************************************************)
\* bounds of the model: the status queries followed in one polling loop,
\* the seconds a slow request takes, the voice ids the platform issues
CnMaxQueries == 5
CnSlow == 300
CnMaxIds == 2

\* max_wait: int = 600
CnMaxWait == 600

\* time.sleep(5)
CnPollSleep == 5

\* consecutive_errors >= 5
CnMaxErrors == 5

\* if duration < 15 / if duration > 300
CnMinDuration == 15
CnMaxDuration == 300

\* get_audio_duration: None when it cannot be probed, else seconds
NoDuration == -1
CnAudioDurations ==
    {NoDuration, 10, CnMinDuration - 1, CnMinDuration, CnMaxDuration,
     CnMaxDuration + 1}

\* the (hash, model) pairs clone is called with
CnKeys == { << <<"a">>, <<"m">> >>, << <<"b">>, <<"m">> >> }

\* the voice ids the platform issues, in this order
CnIds == <<"v1", "v2", "v3">>

\* data["status"]: 0 waiting, 1 (any other) in progress, 2 done, 3 expired,
\* 4 failed, 99 deleted
CnStatuses == {0, 1, 2, 3, 4, 99}
CnProgress == {0, 50}

\* err_msg when the response has none: data.get("err_msg", <unknown error>)
CnDefaultMsg == <<"x">>

\* the err_msg of a status response
CnMsgs == {<<>>, <<"x">>, <<"x", "qian", "fei", "x">>}

\* how get_token answers: from memory, from the disk cache, after a token
\* request, or raising after a token request
GetTokenOutcomes == {"memory", "disk", "refresh", "refresh_fails"}

\* whether the call of get_token issued a token request
IssuesTokenRequest(src) == src \in {"refresh", "refresh_fails"}

\* what clone does with the duration of the audio: "short" and "long" raise
DurationCheck(duration, trimmed) ==
    IF duration = NoDuration THEN "ok"
    ELSE IF duration < CnMinDuration THEN "short"
    ELSE IF duration > CnMaxDuration /\ ~trimmed THEN "long"
    ELSE "ok"

\* what _poll_clone does with a status response
CnBranch(status, err_msg) ==
    CASE status = 2 -> "return"
      [] status = 4 -> IF IsBilling(err_msg) THEN "billing" ELSE "failed"
      [] status = 3 -> "expired"
      [] status = 99 -> "deleted"
      [] OTHER -> "sleep"

\* taking status 1 for the ready status (a faulty variant of ValidateVoice)
ValidateVoiceStatus1(ok, status) == ok /\ status = 1

\* taking a failed query for a valid voice (a faulty variant of
\* ValidateVoice)
ValidateVoiceOnFailure(ok, status) == ~ok \/ status = 2

\* return result["data"]["status"] == 2, False when the query raises
ValidateVoice(ok, status) == ok /\ status = 2

\* writing the cache however polling ends (a faulty variant of WritesCache)
WritesCacheOnAnyEnd(branch, use_cache) == use_cache /\ branch # "sleep"

\* clone after _poll_clone: the put is reached only when _poll_clone has
\* returned, and made only "if use_cache"
WritesCache(branch, use_cache) == branch = "return" /\ use_cache

\* what the validation query met: an exception, status 2, another status
ValidationQuery(ok, status) ==
    IF ~ok THEN "failed" ELSE IF status = 2 THEN "ready" ELSE "not_ready"

CnNoResult == [kind |-> "none", voice_id |-> ""]
CnReturn(voice_id) == [kind |-> "voice_id", voice_id |-> voice_id]
CnError(kind) == [kind |-> kind, voice_id |-> ""]

CnNoArgs == [key |-> << <<>>, <<>> >>, use_cache |-> FALSE]

\* status 2 returns, status 4, 3 and 99 raise: the job is over
CnTerminal == {2, 3, 4, 99}

\* how long a status query takes: once the queries the model follows one by
\* one are made, the next request lasts as long as the maximum wait
CnQueryTime(queries, fast) ==
    IF queries < CnMaxQueries THEN fast ELSE {CnMaxWait}

\* nothing done yet: network requests by kind, cache calls, the failed
\* polling queries in a row, the cached id that failed validation, the last
\* polling response, the outcome of the duration check, what the
\* validation query of the cached id met, the exception of the last polling
\* query, and whether a query was issued in a pass entered after the
\* maximum wait
CnNoHist ==
    [token |-> 0, validations |-> 0, uploads |-> 0, jobs |-> 0, queries |-> 0,
     gets |-> 0, puts |-> 0, removes |-> 0, run |-> 0, stale |-> NoneId,
     status |-> -1, msg |-> <<>>, check |-> "none", vq |-> "none",
     fail |-> "none", late |-> FALSE]

\* the network requests of the operation so far
CnNetwork(h) == h.token + h.validations + h.uploads + h.jobs + h.queries

CnInit ==
    /\ cnPc = "idle"
    /\ cnArgs = CnNoArgs
    /\ cnClock = 0
    /\ cnStart = 0
    /\ cnCached = NoneId
    /\ cnVoice = ""
    /\ cnIssued = 0
    /\ cnLastStatus = -1
    /\ cnLastPct = -1
    /\ cnErrors = 0
    /\ cnCb = <<"none", 0>>
    /\ cnResult = CnNoResult
    /\ cnHist = CnNoHist

CnRaise(kind) ==
    /\ cnPc' = "raised"
    /\ cnResult' = CnError(kind)

\* the variables of the polling loop
cnPollVars == <<cnClock, cnStart, cnLastStatus, cnLastPct, cnErrors>>

\* clone_voice(reference_audio, ...): token = self._get_token()
CloneVoice ==
    /\ cnPc = "idle"
    /\ svc \in {"none", "voice_clone"}
    /\ svc' = "voice_clone"
    /\ \E key \in CnKeys, use_cache \in BOOLEAN, src \in GetTokenOutcomes :
          /\ cnArgs' = [key |-> key, use_cache |-> use_cache]
          /\ cnHist' = [cnHist EXCEPT
                          !.token = IF IssuesTokenRequest(src) THEN 1 ELSE 0]
          /\ IF src = "refresh_fails"
             THEN CnRaise("token")
             ELSE /\ cnPc' = "clone"
                  /\ UNCHANGED cnResult
    /\ UNCHANGED <<cnCached, cnVoice, cnIssued, cnCb, vcMem, vcFile>>
    /\ UNCHANGED cnPollVars
    /\ UNCHANGED othersCn

\* clone: the file and duration checks, up to audio_hash
Clone ==
    /\ cnPc = "clone"
    /\ \E exists, trimmed \in BOOLEAN, duration \in CnAudioDurations :
          LET c == DurationCheck(duration, trimmed) IN
          IF ~exists
          THEN /\ CnRaise("FileNotFoundError")
               /\ UNCHANGED cnHist
          ELSE /\ cnHist' = [cnHist EXCEPT !.check = c]
               /\ IF c # "ok" THEN CnRaise("ValueError")
                  ELSE /\ cnPc' = IF cnArgs.use_cache THEN "cache" ELSE "upload"
                       /\ UNCHANGED cnResult
    /\ UNCHANGED <<cnArgs, cnCached, cnVoice, cnIssued, cnCb, vcMem, vcFile>>
    /\ UNCHANGED cnPollVars
    /\ UNCHANGED notCn

\* cached_id = self._cache.get(audio_hash, model); if cached_id: ...
CloneCacheGet ==
    /\ cnPc = "cache"
    /\ LET c == CacheLoad(vcMem[1], vcFile)
           id == CacheGet(c.map, MakeKey(cnArgs.key[1], cnArgs.key[2]))
       IN
       /\ vcMem' = [vcMem EXCEPT ![1] = c]
       /\ cnCached' = id
       /\ cnPc' = IF id # NoneId /\ id # "" THEN "validate" ELSE "upload"
    /\ cnHist' = [cnHist EXCEPT !.gets = @ + 1]
    /\ UNCHANGED <<cnArgs, cnVoice, cnIssued, cnCb, cnResult, vcFile>>
    /\ UNCHANGED cnPollVars
    /\ UNCHANGED notCn

\* _validate_voice(cached_id, ...), then the return of the cached id or
\* self._cache.remove(audio_hash, model)
CloneValidate ==
    /\ cnPc = "validate"
    /\ \E ok \in BOOLEAN, status \in CnStatuses, saved \in BOOLEAN :
          /\ ~ok => status = 0
          /\ IF ValidateVoice(ok, status)
             THEN /\ cnPc' = "returned"
                  /\ cnResult' = CnReturn(cnCached)
                  /\ cnCb' = <<"clone", 100>>
                  /\ cnHist' = [cnHist EXCEPT
                                  !.validations = @ + 1,
                                  !.vq = ValidationQuery(ok, status)]
                  /\ UNCHANGED <<vcMem, vcFile>>
             ELSE LET key == MakeKey(cnArgs.key[1], cnArgs.key[2])
                      map == CacheRemove(vcMem[1].map, key)
                      had == key \in DOMAIN vcMem[1].map
                  IN
                  /\ cnPc' = "upload"
                  /\ cnHist' = [cnHist EXCEPT !.validations = @ + 1,
                                              !.removes = @ + 1,
                                              !.stale = cnCached,
                                              !.vq = ValidationQuery(ok, status)]
                  /\ vcMem' = [vcMem EXCEPT ![1] =
                                 IF had THEN Loaded(map) ELSE vcMem[1]]
                  /\ vcFile' = IF had /\ saved THEN VcSaved(map) ELSE vcFile
                  /\ UNCHANGED <<cnResult, cnCb>>
    /\ UNCHANGED <<cnArgs, cnCached, cnVoice, cnIssued>>
    /\ UNCHANGED cnPollVars
    /\ UNCHANGED notCn

\* upload_result = self._api.upload_file(...); audio_public_url
CloneUpload ==
    /\ cnPc = "upload"
    /\ cnHist' = [cnHist EXCEPT !.uploads = @ + 1]
    /\ \E ok \in BOOLEAN, has_url \in BOOLEAN :
          IF ~ok THEN /\ CnRaise("upload")
                      /\ cnCb' = <<"upload_audio", 0>>
          ELSE IF ~has_url THEN /\ CnRaise("RuntimeError")
                                /\ cnCb' = <<"upload_audio", 0>>
          ELSE /\ cnPc' = "job"
               /\ cnCb' = <<"clone", 0>>
               /\ UNCHANGED cnResult
    /\ UNCHANGED <<cnArgs, cnCached, cnVoice, cnIssued, vcMem, vcFile>>
    /\ UNCHANGED cnPollVars
    /\ UNCHANGED notCn

\* the job-creation json_request, voice_id = result["data"], and the entry
\* of _poll_clone
CloneCreateJob ==
    /\ cnPc = "job"
    /\ cnIssued < CnMaxIds
    /\ cnHist' = [cnHist EXCEPT !.jobs = @ + 1]
    /\ \E ok \in BOOLEAN :
          IF ok
          THEN /\ cnIssued' = cnIssued + 1
               /\ cnVoice' = CnIds[cnIssued + 1]
               /\ cnPc' = "poll"
               /\ UNCHANGED cnResult
          ELSE /\ CnRaise("request")
               /\ UNCHANGED <<cnIssued, cnVoice>>
    /\ cnStart' = cnClock
    /\ UNCHANGED <<cnArgs, cnCached, cnCb, cnClock, cnLastStatus, cnLastPct,
                   cnErrors, vcMem, vcFile>>
    /\ UNCHANGED notCn

\* the head of the loop finds the time over
CnTimeout ==
    /\ cnPc = "poll"
    /\ cnClock - cnStart > CnMaxWait
    /\ CnRaise("TimeoutError")
    /\ UNCHANGED <<cnArgs, cnCached, cnVoice, cnIssued, cnCb, cnHist,
                   vcMem, vcFile>>
    /\ UNCHANGED cnPollVars
    /\ UNCHANGED notCn

\* one pass of the loop: the status query raises
CnQueryFails ==
    /\ cnPc = "poll"
    /\ ~(cnClock - cnStart > CnMaxWait)
    /\ cnErrors' = ErrorsAfter(cnErrors, FALSE)
    /\ \E exc \in PollFailures :
          cnHist' = [cnHist EXCEPT
                       !.queries = @ + 1, !.run = @ + 1, !.fail = exc,
                       !.late = @ \/ cnClock - cnStart > CnMaxWait]
    /\ \E d \in CnQueryTime(cnHist.queries, {0, CnSlow}) :
          IF cnErrors' >= CnMaxErrors
          THEN /\ CnRaise("RuntimeError:poll")
               /\ cnClock' = cnClock + d
          ELSE /\ cnClock' = cnClock + d + CnPollSleep
               /\ UNCHANGED <<cnPc, cnResult>>
    /\ UNCHANGED <<cnArgs, cnStart, cnCached, cnVoice, cnIssued, cnLastStatus,
                   cnLastPct, cnCb, vcMem, vcFile>>
    /\ UNCHANGED notCn

\* one pass of the loop: the status query returns a response; on status 2
\* _poll_clone returns and clone writes the cache and returns voice_id
CnQuery ==
    /\ cnPc = "poll"
    /\ ~(cnClock - cnStart > CnMaxWait)
    /\ cnErrors' = ErrorsAfter(cnErrors, TRUE)
    /\ \E status \in CnStatuses, d \in CnQueryTime(cnHist.queries, {0}) :
       \E progress \in IF status \in {2, 3, 4, 99} THEN {0} ELSE CnProgress,
          err_msg \in IF status = 4 THEN CnMsgs ELSE {<<>>},
          saved \in IF status = 2 /\ cnArgs.use_cache THEN BOOLEAN ELSE {FALSE} :
          LET b == CnBranch(status, err_msg)
              key == MakeKey(cnArgs.key[1], cnArgs.key[2])
              c == CacheLoad(vcMem[1], vcFile)
              map == CachePut(c.map, key, Entry(cnVoice, cnArgs.key[2]))
              put == WritesCache(b, cnArgs.use_cache)
          IN
          /\ cnHist' = [cnHist EXCEPT !.queries = @ + 1, !.run = 0,
                                      !.status = status,
                                      !.msg = err_msg,
                                      !.puts = IF put THEN @ + 1 ELSE @,
                                      !.fail = "none",
                                      !.late = @ \/ cnClock - cnStart > CnMaxWait]
          /\ vcMem' = IF put THEN [vcMem EXCEPT ![1] = Loaded(map)] ELSE vcMem
          /\ vcFile' = IF put /\ saved THEN VcSaved(map) ELSE vcFile
          /\ CASE b = "return" ->
                    /\ cnPc' = "returned"
                    /\ cnResult' = CnReturn(cnVoice)
                    /\ cnCb' = <<"clone", 100>>
                    /\ cnClock' = cnClock + d
                    /\ UNCHANGED <<cnLastStatus, cnLastPct>>
               [] b = "billing" ->
                    /\ CnRaise("RuntimeError:billing")
                    /\ cnClock' = cnClock + d
                    /\ UNCHANGED <<cnLastStatus, cnLastPct, cnCb>>
               [] b \in {"failed", "expired", "deleted"} ->
                    /\ CnRaise("RuntimeError")
                    /\ cnClock' = cnClock + d
                    /\ UNCHANGED <<cnLastStatus, cnLastPct, cnCb>>
               [] OTHER ->
                    /\ IF status # cnLastStatus \/ progress # cnLastPct
                       THEN /\ cnCb' = <<"clone", progress>>
                            /\ cnLastStatus' = status
                            /\ cnLastPct' = progress
                       ELSE UNCHANGED <<cnCb, cnLastStatus, cnLastPct>>
                    /\ cnClock' = cnClock + d + CnPollSleep
                    /\ UNCHANGED <<cnPc, cnResult>>
    /\ UNCHANGED <<cnArgs, cnStart, cnCached, cnVoice, cnIssued>>
    /\ UNCHANGED notCn

\* the caller has the result or the exception: clone_voice is over; the
\* cache and the platform's ids stay
CnDone ==
    /\ cnPc \in {"returned", "raised"}
    /\ cnPc' = "idle"
    /\ cnArgs' = CnNoArgs
    /\ cnClock' = 0
    /\ cnStart' = 0
    /\ cnCached' = NoneId
    /\ cnVoice' = ""
    /\ cnLastStatus' = -1
    /\ cnLastPct' = -1
    /\ cnErrors' = 0
    /\ cnCb' = <<"none", 0>>
    /\ cnResult' = CnNoResult
    /\ cnHist' = CnNoHist
    /\ UNCHANGED <<cnIssued, vcMem, vcFile>>
    /\ UNCHANGED notCn

NextCn ==
    \/ CloneVoice
    \/ Clone
    \/ CloneCacheGet
    \/ CloneValidate
    \/ CloneUpload
    \/ CloneCreateJob
    \/ CnTimeout
    \/ CnQueryFails
    \/ CnQuery
    \/ CnDone
(***************************************************************************)
(* ApiClient.upload_file and _poll_file_status                             *)
(***************************************************************************)
\* bound of the model: the seconds a slow request takes
UfSlow == 30

\* max_wait: int = 90
UfMaxWait == 90

\* poll_interval: int = 3
UfPollInterval == 3

UfFileIds == {"f1", "f2"}

\* data.get("status", 0): 1 synced, 98 / 99 / 100 terminal, anything else
\* not yet synced
UfStatuses == {0, 1, 5, 98, 99, 100}

\* how a file-status query fails: ConnectionError after the retries, an
\* HTTPError, PermissionError after the refresh retry, RuntimeError for a
\* non-zero business code, a body that is no JSON object
UfFailures == {"ConnectionError", "HTTPError", "PermissionError",
               "RuntimeError", "ValueError"}

\* the except clauses of the loop: TimeoutError and RuntimeError are raised
\* again, any other exception is logged
Reraised(exc) == exc \in {"TimeoutError", "RuntimeError"}

\* status 100 taken for "not yet synced" (a faulty variant of UfBranch)
UfBranchWithout100(status) ==
    IF status = 1 THEN "return"
    ELSE IF status \in {98, 99} THEN "failed"
    ELSE "continue"

\* what the loop does with a status
UfBranch(status) ==
    IF status = 1 THEN "return"
    ELSE IF status \in {98, 99, 100} THEN "failed"
    ELSE "continue"

UfNoResult == [kind |-> "none", file_id |-> "", status |-> -1]
\* return {"file_id": file_id, "url": file_url}
UfReturn(file_id) == [kind |-> "file", file_id |-> file_id, status |-> -1]
UfError(kind, status) == [kind |-> kind, file_id |-> "", status |-> status]

\* nothing done yet: whether the PUT has succeeded, the last status
\* received, the failure of the last query, whether a query was issued
\* before the PUT succeeded, after a terminal status, in a pass of the
\* loop entered after the maximum wait, or at a time when more than the
\* maximum wait had elapsed
UfNoHist == [put |-> FALSE, queries |-> 0, status |-> -1, fail |-> "none",
             early |-> FALSE, after |-> FALSE, late |-> FALSE, over |-> FALSE]

\* status 1 returns, status 98, 99 and 100 raise: the wait is over
UfTerminal == {1, 98, 99, 100}

\* the time of the status query of a pass entered at `clock`:
\* time.sleep(poll_interval) comes first
QueryTime(clock) == clock + UfPollInterval

UfInit ==
    /\ ufPc = "idle"
    /\ ufClock = 0
    /\ ufStart = 0
    /\ ufFileId = ""
    /\ ufResult = UfNoResult
    /\ ufHist = UfNoHist

UfRaise(kind, status) ==
    /\ ufPc' = "raised"
    /\ ufResult' = UfError(kind, status)

\* upload_file(file_path, ...): the file check and the upload-url request
UploadFile ==
    /\ ufPc \in {"idle", "returned", "raised"}
    /\ svc \in {"none", "upload"}
    /\ svc' = "upload"
    /\ ufClock' = 0
    /\ ufStart' = 0
    /\ ufHist' = UfNoHist
    /\ \E exists, ok \in BOOLEAN, id \in UfFileIds :
          IF ~exists
          THEN /\ UfRaise("FileNotFoundError", -1)
               /\ ufFileId' = ""
          ELSE IF ~ok
          THEN /\ UfRaise("request", -1)
               /\ ufFileId' = ""
          ELSE /\ ufPc' = "put"
               /\ ufFileId' = id
               /\ ufResult' = UfNoResult
    /\ UNCHANGED othersUf

\* the PUT of the file to the signed URL, and the entry of
\* _poll_file_status
UploadPut ==
    /\ ufPc = "put"
    /\ \E d \in {0, UfSlow}, outcome \in {"200", "other_status", "raises"} :
          /\ ufClock' = ufClock + d
          /\ CASE outcome = "200" ->
                    /\ ufPc' = "poll"
                    /\ ufStart' = ufClock'
                    /\ ufHist' = [ufHist EXCEPT !.put = TRUE]
                    /\ UNCHANGED ufResult
               [] outcome = "other_status" ->
                    /\ UfRaise("RuntimeError:http", -1)
                    /\ UNCHANGED <<ufStart, ufHist>>
               [] OTHER ->
                    /\ UfRaise("put", -1)
                    /\ UNCHANGED <<ufStart, ufHist>>
    /\ UNCHANGED ufFileId
    /\ UNCHANGED notUf

\* the head of the loop finds the time over
UfTimeout ==
    /\ ufPc = "poll"
    /\ ufClock - ufStart > UfMaxWait
    /\ UfRaise("TimeoutError", -1)
    /\ UNCHANGED <<ufClock, ufStart, ufFileId, ufHist>>
    /\ UNCHANGED notUf

\* one pass of the loop: time.sleep(poll_interval), then a status query
\* that returns a response
UfQuery ==
    /\ ufPc = "poll"
    /\ ~(ufClock - ufStart > UfMaxWait)
    /\ ufClock' = QueryTime(ufClock)
    /\ \E status \in UfStatuses :
          /\ ufHist' = [ufHist EXCEPT
                          !.queries = Min(@ + 1, 2), !.status = status,
                          !.fail = "none",
                          !.early = @ \/ ~ufHist.put,
                          !.after = @ \/ UfBranch(ufHist.status) # "continue",
                          !.late = @ \/ ufClock - ufStart > UfMaxWait,
                          !.over = @ \/ QueryTime(ufClock) - ufStart > UfMaxWait]
          /\ CASE UfBranch(status) = "return" ->
                    /\ ufPc' = "returned"
                    /\ ufResult' = UfReturn(ufFileId)
               [] UfBranch(status) = "failed" ->
                    UfRaise("RuntimeError:status", status)
               [] OTHER -> UNCHANGED <<ufPc, ufResult>>
    /\ UNCHANGED <<ufStart, ufFileId>>
    /\ UNCHANGED notUf

\* one pass of the loop: time.sleep(poll_interval), then a status query
\* that raises
UfQueryFails ==
    /\ ufPc = "poll"
    /\ ~(ufClock - ufStart > UfMaxWait)
    /\ \E d \in {0, UfSlow}, exc \in UfFailures :
          /\ ufClock' = QueryTime(ufClock) + d
          /\ ufHist' = [ufHist EXCEPT
                          !.queries = Min(@ + 1, 2), !.fail = exc,
                          !.early = @ \/ ~ufHist.put,
                          !.after = @ \/ UfBranch(ufHist.status) # "continue",
                          !.late = @ \/ ufClock - ufStart > UfMaxWait,
                          !.over = @ \/ QueryTime(ufClock) - ufStart > UfMaxWait]
          /\ IF Reraised(exc)
             THEN UfRaise(exc, -1)
             ELSE UNCHANGED <<ufPc, ufResult>>
    /\ UNCHANGED <<ufStart, ufFileId>>
    /\ UNCHANGED notUf

NextUf ==
    \/ UploadFile
    \/ UploadPut
    \/ UfTimeout
    \/ UfQuery
    \/ UfQueryFails

Init ==
    /\ CredInit /\ AuthInit /\ RlInit /\ RqInit /\ VcInit /\ UpInit /\ LsInit
    /\ TtsInit /\ CnInit /\ UfInit
    /\ svc = "none"

(***************************************************************************)
(* Claims about credential resolution                                      *)
(***************************************************************************)
SpecCred == Init /\ [][NextCred]_vars

\* a source supplies a value when it is there and non-empty once trimmed
Supplied(v) == v # None /\ Strip(v) # <<>>

\* C3: resolution returns the trimmed pair of the first of explicit
\* arguments, environment, config file that supplies both values non-empty,
\* both values from that one source, and fails when no source supplies both.
C3_HighestPrioritySourceWins ==
    credPc # "init" =>
        credResult =
            IF Supplied(credArgs[1]) /\ Supplied(credArgs[2])
            THEN CredOk(Strip(credArgs[1]), Strip(credArgs[2]))
            ELSE IF Supplied(credEnv[1]) /\ Supplied(credEnv[2])
            THEN CredOk(Strip(credEnv[1]), Strip(credEnv[2]))
            ELSE IF credFile.kind = "ok" /\ Supplied(credFile.app_id)
                    /\ Supplied(credFile.secret_key)
            THEN CredOk(Strip(credFile.app_id), Strip(credFile.secret_key))
            ELSE CredError

\* C36: a constructed AuthManager holds an app_id and a secret_key that are
\* trimmed and non-empty; explicit arguments of which one is None, empty or
\* whitespace-only count as not supplied, and the result is then what the
\* environment and the config file alone give.
C36_ResolvedCredentialsNonEmpty ==
    /\ credPc = "resolved" =>
          /\ credResult.ok
          /\ credResult.app_id # <<>> /\ credResult.secret_key # <<>>
          /\ Strip(credResult.app_id) = credResult.app_id
          /\ Strip(credResult.secret_key) = credResult.secret_key
    /\ (credPc # "init" /\ ~(Supplied(credArgs[1]) /\ Supplied(credArgs[2]))) =>
          credResult = ResolveCredentials(<<None, None>>, credEnv, credFile)

SpecAuth == Init /\ [][NextAuth]_vars

(***************************************************************************)
(* Claims about the token cache and the JSON business layer                *)
(***************************************************************************)

\* C1: when a business json_request is re-issued after an auth-expired code,
\* the token substituted into its access_token header is a fresh one: not the
\* token that was just rejected, whatever the memory and disk cache held.
C1_RetryUsesFreshToken ==
    \A c \in Clients :
        call[c].reissues > 0 /\ TokTruthy(call[c].rejected) =>
            call[c].fresh # call[c].rejected

\* C2: a get_token call that returns a token without a token request returns
\* one whose stored fingerprint is that of the current credentials and whose
\* stored expiry less 300 s is still ahead, whether it came from memory or
\* from the disk cache; every other get_token call makes exactly one token
\* request, and what it returns is the token that request issued.
C2_ReuseOnlyIfValidElseOneRefresh ==
    \A c \in Clients :
        /\ gt[c].src \in {"memory", "disk"} =>
              gt[c].calls = 0 /\ gt[c].fpOk /\ gt[c].timeOk /\ TokTruthy(gt[c].tok)
        /\ gt[c].src \in {"pending", "raised"} => gt[c].calls = 1
        /\ gt[c].src = "refresh" =>
              gt[c].calls = 1 /\ gt[c].tok = gt[c].issued /\ TokTruthy(gt[c].tok)

\* C2's case: a token is reused from the disk cache after the clock has moved,
\* and another get_token call has refreshed
C2_Witness ==
    /\ ticks > 0
    /\ gt[1].src = "disk"
    /\ nextTok > 1

\* C7: one top-level json_request resets and refreshes auth at most once and
\* re-issues the request at most once; a re-issued request answered 10400 or
\* 10401 ends in the permission error with no second refresh; the token
\* request never starts a refresh, so at most one refresh is in progress.
C7_SingleAuthRetry ==
    \A c \in Clients :
        /\ call[c].resets <= 1 /\ call[c].gets <= 1
        /\ call[c].reissues <= 1 /\ call[c].tokReqs <= 1
        /\ Len(stk[c]) <= 2
        /\ \A i \in 1..Len(stk[c]) :
              /\ stk[c][i].phase = "refreshing" => stk[c][i].kind = "bus" /\ i = 1
              /\ stk[c][i].kind = "tok" => stk[c][i].retried
        /\ (call[c].reissues = 1 /\ stk[c] = <<>> /\ call[c].lastCode \in AuthExpired)
              => call[c].outcome = "permission" /\ call[c].resets = 1

\* C7's case: the re-issued request was answered auth-expired again
C7_Witness ==
    /\ call[1].reissues = 1
    /\ call[1].outcome = "permission"
    /\ call[1].freshSrc = "refresh"

\* a step in which the token request of client c's get_token succeeds
Refreshed(c) == gt[c].src = "pending" /\ gt'[c].src = "refresh"

\* a new process with fingerprint h, given file d, gets token t from the file
\* at time t0 and up to the last second before expiry e less 300 s, and no
\* longer at that second
NewProcessReuses(d, t, t0, e, h) ==
    /\ \A t1 \in {t0, e - 300 - 1} :
          LET r == GetTokenLocal(Cleared, d, t1, h) IN
          r.src = "disk" /\ r.tok = t
    /\ GetTokenLocal(Cleared, d, e - 300, h).src = "refresh"

OtherCodes == Codes \ ({0} \cup AuthExpired)

\* C27: a json_request whose response carries a non-zero code other than
\* 10400 / 10401 ends at once in the generic API error for that code: no
\* reset, no get_token, no token request, no re-issue, and the token state
\* in memory and on disk, the token the caller holds and the request's
\* header stay as they were.
C27_OtherCodeRaisesWithoutAuthEffects ==
    [][\A c \in Clients :
          (call'[c] # call[c] /\ call'[c].lastCode \in OtherCodes) =>
             /\ call'[c].outcome = "runtime"
             /\ stk[c] # <<>> /\ stk'[c] = <<>>
             /\ call'[c].resets = call[c].resets
             /\ call'[c].gets = call[c].gets
             /\ call'[c].tokReqs = call[c].tokReqs
             /\ call'[c].reissues = call[c].reissues
             /\ mem' = mem /\ disk' = disk
             /\ held' = held /\ hdr' = hdr
             /\ nextTok' = nextTok /\ srvValid' = srvValid]_vars

\* C27's case: a first business request, carrying the token that memory and
\* the cache file hold, was answered with code 500
C27_Witness ==
    /\ call[1].outcome = "runtime"
    /\ call[1].lastCode = 500
    /\ call[1].resets = 0 /\ call[1].reissues = 0
    /\ TokTruthy(hdr[1])
    /\ mem[1].tok = hdr[1]
    /\ disk.kind = "ok" /\ disk.tok = hdr[1]

\* C21: a get_token call made while the cache file holds a token with the
\* caller's fingerprint and more than 300 s to live never goes to the token
\* endpoint: it returns the token in memory when that one is valid, and
\* otherwise consults the file and returns the token found there.
C21_DiskConsultedBeforeRefresh ==
    \A c \in Clients :
        gt[c].diskOk => gt[c].src \in {"memory", "disk"} /\ gt[c].calls = 0

\* the get_token calls that have returned a token
GtSources == {"memory", "disk", "refresh"}

\* the token request on top of client c's stack is answered with code 0 and
\* the access_token stored from the answer is None or ""
TokenResponseWithoutToken(c) ==
    /\ stk[c] # <<>>
    /\ stk[c][Len(stk[c])] = TokFrame
    /\ call'[c].lastCode = 0
    /\ ~TokTruthy(mem'[c].tok)

\* every token get_token has returned is a token, neither None nor ""
C32_ReturnedTokenTruthy ==
    \A c \in Clients : gt[c].src \in GtSources => TokTruthy(gt[c].tok)

\* a token response without access_token: get_token raises, the whole call
\* is abandoned, the cache file is left as it was and no token is handed out
C32_EmptyResponseRaises ==
    \A c \in Clients :
        TokenResponseWithoutToken(c) =>
            /\ gt'[c].src = "raised"
            /\ call'[c].outcome = "runtime"
            /\ stk'[c] = <<>>
            /\ disk' = disk
            /\ held'[c] = held[c] /\ hdr'[c] = hdr[c]
            /\ srvValid' = srvValid /\ nextTok' = nextTok

\* a get_token call of a client whose memory holds no token returns only
\* the token of a usable cache file, or a token the platform issues in
\* this very step
C32_ReturnNeedsDiskOrIssuance ==
    \A c \in Clients :
        (~TokTruthy(mem[c].tok) /\ gt'[c] # gt[c] /\ gt'[c].src \in GtSources) =>
            \/ /\ gt'[c].src = "disk"
               /\ DiskUsable(disk, now, ConfigHash(c))
               /\ gt'[c].tok = disk.tok
            \/ /\ gt'[c].src = "refresh"
               /\ gt'[c].tok = nextTok /\ nextTok' = nextTok + 1
               /\ gt'[c].tok \in srvValid' \ srvValid

\* C32: get_token never returns an empty or missing token; when the token
\* response carries no access_token, get_token raises and nothing is written
\* to the cache file; and a client without a token in memory gets one only
\* from a usable cache file or from a new successful issuance.
C32_NoEmptyTokenReturned ==
    /\ []C32_ReturnedTokenTruthy
    /\ [][C32_EmptyResponseRaises /\ C32_ReturnNeedsDiskOrIssuance]_vars

\* a refresh answered with "" has raised, the cache file of an earlier
\* refresh is still there, and memory holds the empty token
C32_Witness ==
    /\ gt[1].src = "raised"
    /\ call[1].outcome = "runtime" /\ call[1].lastCode = 0
    /\ mem[1].tok = EmptyTok
    /\ disk.kind = "ok" /\ TokTruthy(disk.tok)

\* the token client c got from its last get_token was issued for the
\* fingerprint of c's credentials
IssuedForOwnFingerprint(c) ==
    ComputeHash(tokCred[gt[c].tok][1], tokCred[gt[c].tok][2]) = ConfigHash(c)

\* C34: of the clients that share the cache file, each constructed with
\* credentials of its own, none gets from get_token a token that was issued
\* for credentials other than its own.
C34_NoTokenOfOtherCredentials ==
    \A c \in Clients :
        gt[c].src \in GtSources => tokCred[gt[c].tok] = cfg[c]

(***************************************************************************)
(* Claims about the rate limiter                                           *)
(***************************************************************************)
\* the rate limiter used by a single caller
SpecRl == Init /\ [][NextRl]_vars

\* C4 (state part): with one caller, two consecutive waits of a category return
\* at least that category's interval apart, and a wait sleeps exactly until
\* its own category's last timestamp plus the interval.
C4_Spacing ==
    /\ \A cat \in Categories :
          rlPrev[cat] > 0 => rlTimestamps[cat] - rlPrev[cat] >= Interval(cat)
    /\ \A t \in rlLive :
          rlPc[t] = "sleep" => rlWake[t] = rlTimestamps[rlCat[t]] + Interval(rlCat[t])

\* C4 (step part): a step changes the timestamp of a category only when it
\* is the return of a wait for that very category.
C4_Frame ==
    \A cat \in Categories :
        rlTimestamps'[cat] # rlTimestamps[cat] =>
            \E t \in rlLive : rlPc[t] = "stamp" /\ rlCat[t] = cat

\* C4: for a single caller, consecutive waits of one category return at least
\* its interval apart (6 s, 6 s, 0.5 s, 1 s; 1 s for an unlisted category),
\* and a wait in one category neither delays nor re-stamps another category.
C4_MinIntervalPerCategory == []C4_Spacing /\ [][C4_Frame]_vars

\* C4's case: a second lip_sync wait has slept and returned, and a wait of
\* another category has returned in between without sleeping
C4_Witness ==
    /\ rlPrev["lip_sync"] > 0
    /\ rlTimestamps["lip_sync"] = rlPrev["lip_sync"] + Interval("lip_sync")
    /\ rlTimestamps["other"] > rlPrev["lip_sync"]
    /\ rlTimestamps["other"] < rlTimestamps["lip_sync"]

\* the rate limiter called from two threads, with no lock around wait
SpecRl2 == Init /\ [][NextRl2]_vars

\* C22: wait reads the timestamp, sleeps and writes the timestamp in
\* separate steps that another thread's wait can interleave with.  A wait
\* whose category was stamped by nobody else between its read and its write
\* (calls one at a time) returns at least the interval after the previous
\* return; with interleaving two waits of a category can return less than
\* the interval apart (the witness).
C22_SpacingOnlyWhenSerialised ==
    [][\A t \in RlThreads :
          (rlPc[t] = "stamp" /\ rlPc'[t] = "idle"
              /\ rlTimestamps[rlCat[t]] = rlRead[t]) =>
             rlTimestamps'[rlCat[t]] - rlTimestamps[rlCat[t]]
                >= Interval(rlCat[t])]_vars

\* C22's case: two threads' waits for lip_sync overlapped and returned at
\* the same time, without sleeping the 6 s between them
C22_Witness ==
    /\ rlLive = RlThreads
    /\ rlPrev["lip_sync"] > 0
    /\ rlTimestamps["lip_sync"] - rlPrev["lip_sync"] < Interval("lip_sync")
    /\ rlPc = [t \in RlThreads |-> "idle"]

(***************************************************************************)
(* Claims about ApiClient.request                                          *)
(***************************************************************************)
SpecRq == Init /\ [][NextRq]_vars

\* the attempts of the current call that ended in a connection error or timeout
RqFailed == {i \in 1..Len(rqHist) : rqHist[i] \in Retriable}

\* C5: request makes at most max_retries attempts; a connection error or
\* timeout is followed by one retry_delay sleep and another attempt exactly
\* when attempts remain; the first successful attempt returns its response
\* and ends the call; max_retries such failures raise the connectivity error
\* wrapping the last exception.
C5_BoundedRetry ==
    /\ Len(rqHist) <= rqMax
    /\ rqSleeps = Cardinality({i \in RqFailed : i < rqMax})
    /\ \A i \in 1..Len(rqHist) : rqHist[i] = "ok" => i = Len(rqHist)
    /\ (rqHist # <<>> /\ rqHist[Len(rqHist)] = "ok") =>
          rqPc \in {"returned", "idle"} /\ rqResult = RqOutcome("response", NoExc)
    /\ (RqFailed = 1..Len(rqHist) /\ Len(rqHist) < rqMax) =>
          rqPc \in {"attempt", "sleeping"}
    /\ (RqFailed = 1..Len(rqHist) /\ Len(rqHist) = rqMax /\ rqMax > 0) =>
          /\ rqPc \in {"raised", "idle"}
          /\ rqResult = RqOutcome("ConnectionError", rqHist[rqMax])

\* C5's case: every one of three attempts failed, the last with a timeout
C5_Witness ==
    /\ rqPc = "raised"
    /\ rqMax = 3
    /\ rqHist = <<"conn", "timeout", "timeout">>
    /\ rqSleeps = 2

\* C6: an attempt that ends in an HTTP error status or in any other
\* exception is the last one: it propagates as it is, with no sleep and no
\* further attempt after it, however many attempts remain.
C6_NoRetryOnHttpError ==
    \A i \in 1..Len(rqHist) :
        rqHist[i] \in {"http", "other"} =>
            /\ i = Len(rqHist)
            /\ rqPc \in {"raised", "idle"}
            /\ rqResult = RqOutcome(rqHist[i], NoExc)
            /\ rqSleeps = i - 1

\* C6's case: the second of four allowed attempts ended in an HTTP error
C6_Witness ==
    /\ rqPc = "raised"
    /\ rqMax = 4
    /\ rqHist = <<"conn", "http">>

\* C29 (state part): a call of request has consulted the rate limiter once,
\* however many attempts it has made.
C29_OneLimiterCall ==
    /\ rqAttempt = 0 => rqWaits = 0
    /\ rqAttempt >= 1 => rqWaits = 1

\* C29 (step part): an attempt after the first follows one retry_delay sleep
\* per earlier attempt, and neither an attempt nor a sleep consults the rate
\* limiter.
C29_RetryStep ==
    /\ (Len(rqHist') > Len(rqHist) /\ Len(rqHist) >= 1) =>
          rqSleeps = Len(rqHist)
    /\ rqPc \in {"attempt", "sleeping"} => rqWaits' = rqWaits

SpecVc == Init /\ [][NextVc]_vars

\* a step of instance i is get(h, m) right after its operation op on (h, m)
GetFollows(i, op) ==
    /\ vcLast[i].op = op
    /\ vcLast'[i].op = "get"
    /\ vcLast'[i].hash = vcLast[i].hash
    /\ vcLast'[i].model = vcLast[i].model

\* C8 (as a step property): get(k) right after put(k, id) returns id, and
\* get(k) right after remove(k) returns nothing, whatever operations on
\* whatever keys came before.
C8_Step ==
    \A i \in VcInstances :
        /\ GetFollows(i, "put") => vcLast'[i].id = vcLast[i].id
        /\ GetFollows(i, "remove") => vcLast'[i].id = NoneId

\* C8: put then get with the same (hash, model) returns the stored id, a later
\* put replacing an earlier one; remove then get returns nothing.
C8_PutGetRemoveGet == [][C8_Step]_vars

\* C8's case: a get has returned the id of a put that replaced another id,
\* with an entry for a second key in the cache
C8_Witness ==
    /\ vcLast[1].op = "get"
    /\ vcLast[1].id = "v1"
    /\ Cardinality(DOMAIN vcMem[1].map) = 2
    /\ vcFile.kind = "ok"
    /\ MakeKey(vcLast[1].hash, vcLast[1].model) \in DOMAIN vcFile.map
    /\ vcFile.map[MakeKey(vcLast[1].hash, vcLast[1].model)].voice_id = ""

\* the keys the operations can be called with
VcKeys == { MakeKey(hm[1], hm[2]) : hm \in KeyPairs }

\* the key of instance i's last operation
LastKey(i) == MakeKey(vcLast[i].hash, vcLast[i].model)

\* the step is an operation op of instance i
Operates(i, op) ==
    /\ vcLast'[i].op = op
    /\ vcLast'[i] # vcLast[i] \/ vcMem'[i] # vcMem[i]

\* C30 (step part): while an instance lives, the id its dict holds for a key
\* changes only in a put or a remove of that key, to the id put or to
\* nothing; a get changes neither the file nor a loaded dict and returns
\* what the dict holds.
C30_Frame ==
    \A i \in VcInstances :
        /\ \A k \in VcKeys :
              (vcMem[i].loaded /\ vcMem'[i].loaded
                  /\ CacheGet(vcMem'[i].map, k) # CacheGet(vcMem[i].map, k)) =>
                 /\ vcLast'[i].op \in {"put", "remove"}
                 /\ LastKey(i)' = k
        /\ Operates(i, "put") =>
              CacheGet(vcMem'[i].map, LastKey(i)') = vcLast'[i].id
        /\ Operates(i, "remove") => LastKey(i)' \notin DOMAIN vcMem'[i].map
        /\ Operates(i, "get") =>
              /\ vcFile' = vcFile
              /\ vcMem'[i] = CacheLoad(vcMem[i], vcFile)
              /\ vcLast'[i].id = CacheGet(vcMem'[i].map, LastKey(i)')

\* C30 (state part): the id the last get returned is the one the dict holds
\* for its key.
C30_GetReturnsEntry ==
    \A i \in VcInstances :
        vcLast[i].op = "get" =>
            vcMem[i].loaded /\ vcLast[i].id = CacheGet(vcMem[i].map, LastKey(i))

\* C30: an entry changes or disappears only through put or remove of its own
\* key: get modifies nothing, operations on other keys leave it alone,
\* nothing expires; so get(k) returns the id of the latest put(k) that no
\* remove(k) followed.
C30_EntryChangesOnlyByOwnKey == []C30_GetReturnsEntry /\ [][C30_Frame]_vars

\* C30's case: with all three keys in the dict and no cache file written,
\* get of the first key returns the id put for it
C30_Witness ==
    /\ vcLast[1].op = "get"
    /\ vcLast[1].id = "v1"
    /\ vcLast[1].hash = <<"a">> /\ vcLast[1].model = <<"m">>
    /\ DOMAIN vcMem[1].map = VcKeys
    /\ vcFile.kind = "missing"

\* two cache instances on one cache directory, with no lock on the file
SpecVc2 == Init /\ [][NextVc2]_vars

\* what _load reads from the file
FileMap == CacheLoad(NotLoaded, vcFile).map

\* the dict of instance i, loaded if it is not yet
MemMap(i) == CacheLoad(vcMem[i], vcFile).map

\* instance i's dict and the file agree
Synced(i) == FileMap = MemMap(i)

\* the step is a put or a remove of instance i
Mutates(i) ==
    /\ vcLast'[i].op \in {"put", "remove"}
    /\ vcLast'[i] # vcLast[i] \/ vcMem'[i] # vcMem[i]

\* C23: a put or remove that saves rewrites the whole file from the dict of
\* the instance that made it, whatever another instance wrote before (last
\* writer wins, the witness: an entry put by one instance is gone from the
\* file); one that does not save, or whose write fails, leaves the file as
\* it was.  For an instance whose dict agreed with the file before, hence
\* for a single instance with successful writes, the file equals the dict
\* after every put and remove and no entry of another key is dropped.
C23_WholeFileRewrittenFromOwnMap ==
    [][\A i \in VcInstances :
          Mutates(i) =>
             /\ vcLast'[i].wrote = "written" =>
                   vcFile' = VcSaved(vcMem'[i].map) /\ Synced(i)'
             /\ vcLast'[i].wrote # "written" => vcFile' = vcFile
             /\ (vcLast'[i].wrote = "none" /\ Synced(i)) => Synced(i)'
             /\ Synced(i) => ~vcLast'[i].lost]_vars

\* C23's case: instance 1 has put an entry and saved it, and instance 2,
\* which had loaded the file before, has then put another key: the file no
\* longer holds the entry of instance 1
C23_Witness ==
    /\ vcLive = VcInstances
    /\ vcLast[1].op = "put" /\ vcLast[1].wrote = "written"
    /\ vcLast[2].op = "put" /\ vcLast[2].wrote = "written"
    /\ vcLast[2].lost
    /\ vcLast[1].id = "v1"
    /\ MakeKey(vcLast[1].hash, vcLast[1].model) \in DOMAIN vcMem[1].map
    /\ vcFile.kind = "ok"
    /\ MakeKey(vcLast[1].hash, vcLast[1].model) \notin DOMAIN vcFile.map
    /\ vcFile.map = vcMem[2].map

(***************************************************************************)
(* Claims about the upload progress reader                                 *)
(***************************************************************************)
SpecUp == Init /\ [][NextUp]_vars

\* the percentages reported so far never decrease
UpNonDecreasing ==
    \A i \in 1..Len(upCalls) - 1 : upCalls[i] <= upCalls[i + 1]

\* the buffer has been read to its end
UpFullyRead == upReads /\ upPos >= upTotal

\* C9 as stated: for any buffer read to its end, the reported percentages are
\* non-decreasing and the last one is 100.
C9_AnyBufferEndsAt100 ==
    /\ UpNonDecreasing
    /\ UpFullyRead => upCalls # <<>> /\ upCalls[Len(upCalls)] = 100

\* C9 amended: the reported percentages are non-decreasing; for a non-empty
\* buffer read to its end the last one is 100; for an empty buffer the
\* callback is never called.
C9_NonEmptyBufferEndsAt100 ==
    /\ UpNonDecreasing
    /\ (UpFullyRead /\ upTotal > 0) => upCalls # <<>> /\ upCalls[Len(upCalls)] = 100
    /\ upTotal = 0 => upCalls = <<>>

\* C9's case: a buffer read to its end in several reads, some of them
\* unreported, the last report being a step of less than 20 points
C9_Witness ==
    /\ UpFullyRead
    /\ upTotal = 7
    /\ Len(upCalls) = 4
    /\ upCalls[3] > 80

SpecPut == Init /\ [][NextPut]_vars

\* C33: every attempt of the PUT starts to read the upload body at byte 0
\* and so sends the whole file: a PUT answered with 200 has sent every
\* byte of the file in the attempt that was answered.
C33_RetrySendsWholeFile ==
    /\ putPc = "send" => putFrom = 0
    /\ putPc = "uploaded" => putFrom = 0 /\ upPos = upTotal

(***************************************************************************)
(* Claims about the file upload pipeline                                   *)
(***************************************************************************)
SpecUf == Init /\ [][NextUf]_vars

\* C15: a failed file-status query is logged and polling continues: it never
\* ends the loop, whose only outcomes are success, a terminal file status or
\* the timeout.
C15_FileStatusFailureNotSurfaced ==
    /\ ufHist.fail # "none" =>
          \/ ufPc = "poll"
          \/ ufPc = "raised" /\ ufResult.kind = "TimeoutError"
    /\ (ufHist.put /\ ufPc = "raised") =>
          ufResult.kind \in {"RuntimeError:status", "TimeoutError"}

\* C20: upload_file returns the file id only after the PUT succeeded and a
\* later query reported status 1; status 98, 99 or 100 fails the upload with
\* that status as the reason; the timeout error is raised only, and then at
\* the head of the loop, once more than the maximum wait has elapsed, no
\* query being issued in such a pass; no query is issued before the PUT has
\* succeeded, none after a terminal status.
C20_UploadReturnsAfterSync ==
    /\ ufPc = "returned" =>
          /\ ufHist.put
          /\ ufHist.status = 1
          /\ ufResult = UfReturn(ufFileId)
    /\ ufHist.status \in {98, 99, 100} =>
          /\ ufPc = "raised"
          /\ ufResult = UfError("RuntimeError:status", ufHist.status)
    /\ ufResult.kind = "TimeoutError" => ufClock - ufStart > UfMaxWait
    /\ ~ufHist.late
    /\ ~ufHist.early
    /\ ~ufHist.after

\* C20's case: a failed query, a status that is not final, then status 1 and
\* the file id returned
C20_Witness ==
    /\ ufPc = "returned"
    /\ ufResult.file_id = "f2"
    /\ ufHist.queries = 2
    /\ ufClock - ufStart > 3 * UfPollInterval + UfSlow

(***************************************************************************)
(* Claims about the lip-sync service                                       *)
(***************************************************************************)
SpecLs == Init /\ [][NextLs]_vars

\* no status query was issued after status 20 had been observed
LsNoQueryAfter20 == ~lsHist.after

\* the responses so far are non-terminal statuses followed by status 20 with
\* a non-empty video_url
LsSuccessSequence ==
    lsHist.polling /\ lsHist.clean /\ lsHist.seen20 /\ lsHist.url20 # ""

\* the responses so far are non-terminal statuses only
LsPendingSequence == lsHist.polling /\ lsHist.clean /\ ~lsHist.seen20

\* create returned a handle with the observed video_url and the task id of
\* the job creation
LsReturnedHandle ==
    /\ lsPc = "returned"
    /\ lsResult = LipSyncResult(lsHist.url20, lsTask)

\* C10 as stated: for any sequence of non-terminal statuses (0, 10) followed
\* by status 20 with a non-empty video_url, polling returns without error a
\* handle with that video_url and the created task id, and issues no query
\* after status 20: polling never ends with an error while only non-terminal
\* statuses have been received, whatever their number.
C10_AnySequenceReturnsHandle ==
    /\ LsNoQueryAfter20
    /\ LsSuccessSequence => LsReturnedHandle
    /\ LsPendingSequence => lsPc # "raised"

\* C10 amended: the same, provided status 20 is received by a query issued
\* while no more than max_wait (1800 s) have elapsed since polling began; a
\* sequence of non-terminal statuses ends with an error only by the timeout,
\* raised at the head of the loop once more than max_wait has elapsed.
C10_ReturnsHandleUnlessTimeout ==
    /\ LsNoQueryAfter20
    /\ LsSuccessSequence => LsReturnedHandle
    /\ (LsPendingSequence /\ lsPc = "raised") =>
          /\ lsResult.kind = "TimeoutError"
          /\ lsClock - lsStart > LsMaxWait
    /\ (LsPendingSequence /\ lsPc = "query") => lsClock - lsStart <= LsMaxWait

\* C10's case: statuses 0/10 three times, then 20 with a video_url, and the
\* handle returned with that video_url and the task id
C10_Witness ==
    /\ LsSuccessSequence
    /\ LsReturnedHandle
    /\ lsResult.video_url = "u2"
    /\ lsResult.task_id = "t1"
    /\ lsLastStatus = 20
    /\ lsClock - lsStart = 3 * LsPollSleep

\* C14: in the lip-sync polling loop a failed status query is transient:
\* after fewer than 5 failed queries in a row the operation is still polling
\* (or has ended by the timeout); only 5 failures in a row abort it.
C14_LipSyncQueryFailureIsTransient ==
    lsHist.run \in 1..4 =>
        \/ lsPc \in {"check", "query", "sleep"}
        \/ lsPc = "raised" /\ lsResult.kind = "TimeoutError"

(***************************************************************************)
(* Claims about the job services                                           *)
(***************************************************************************)
\* a client used for lip-sync, for TTS or for voice cloning
NextSvc == NextLs \/ NextTts \/ NextCn

SpecSvc == Init /\ [][NextSvc]_vars

\* the message contains one of the billing keywords
HasKeyword(msg) == \E kw \in BILLING_KEYWORDS : Contains(msg, kw)

\* the error a terminal failure with this message is to end in
FailureKind(msg) ==
    IF HasKeyword(msg) THEN "RuntimeError:billing" ELSE "RuntimeError"

\* C11: a terminal failure (TTS status 9 with a non-empty errMsg, whatever
\* else the payload holds; lip-sync status 30; voice-clone status 4) ends the
\* operation with the billing error when the message contains a billing
\* keyword, and with the generic error otherwise, also for an empty message.
C11_BillingErrorOnKeyword ==
    /\ (ttsHist.status = 9 /\ ttsHist.msg # <<>>) =>
          ttsPc = "raised" /\ ttsResult.kind = FailureKind(ttsHist.msg)
    /\ lsHist.status = 30 =>
          lsPc = "raised" /\ lsResult.kind = FailureKind(lsHist.msg)
    /\ cnHist.status = 4 =>
          cnPc = "raised" /\ cnResult.kind = FailureKind(cnHist.msg)

\* C11's case: a TTS response with status 9, a result URL and an errMsg that
\* has a billing keyword inside other text
C11_Witness ==
    /\ ttsHist.status = 9
    /\ ttsHist.url = "a1"
    /\ ttsHist.msg = <<"x", "qian", "fei", "x">>
    /\ ttsResult.kind = "RuntimeError:billing"

\* C13: in the TTS and voice-clone polling loops a status query that raises
\* is counted and polling goes on; the loop aborts exactly when 5 queries in
\* a row have failed; a successful query resets the count, so after fewer
\* than 5 failures in a row the operation is still polling, or has ended by
\* the timeout.
C13_AbortAfterFiveFailuresInARow ==
    /\ ttsErrors = ttsHist.run
    /\ ttsResult.kind = "RuntimeError:poll" <=> ttsHist.run >= TtsMaxErrors
    /\ ttsHist.run \in 1..(TtsMaxErrors - 1) =>
          \/ ttsPc = "poll"
          \/ ttsPc = "raised" /\ ttsResult.kind = "TimeoutError"
    /\ cnErrors = cnHist.run
    /\ cnResult.kind = "RuntimeError:poll" <=> cnHist.run >= CnMaxErrors
    /\ cnHist.run \in 1..(CnMaxErrors - 1) =>
          \/ cnPc = "poll"
          \/ cnPc = "raised" /\ cnResult.kind = "TimeoutError"

\* C13's case: two failed queries, a response, then five failed queries
\* and the abort
C13_Witness ==
    /\ ttsHist.queries = 8
    /\ ttsHist.status = 1
    /\ ttsPollCount = 1
    /\ ttsHist.run = 5
    /\ ttsResult.kind = "RuntimeError:poll"

\* C24: a status query of the TTS or voice-clone polling loop that raises
\* for a non-zero non-auth business code, or the permission error after the
\* refresh retry, ends the operation at once with that very error.
C24_NonTransientQueryErrorPropagates ==
    /\ ttsHist.fail \in NonTransient =>
          ttsPc = "raised" /\ ttsResult.kind = ttsHist.fail
    /\ cnHist.fail \in NonTransient =>
          cnPc = "raised" /\ cnResult.kind = cnHist.fail

\* C16: a LipSyncResult or a TTSResult is returned only when the last
\* response reported the terminal success state (lip-sync status 20; TTS
\* status 9 with no errMsg) with a non-empty result URL, which the handle
\* carries; a failure status, a success status with an empty URL and a
\* timeout each end the operation with an error, and an operation that
\* raised holds no handle.
C16_HandleOnlyAfterSuccessWithUrl ==
    /\ lsResult.kind = "handle" <=> lsPc = "returned"
    /\ lsPc = "returned" =>
          /\ lsHist.status = 20 /\ lsHist.url20 # "" /\ lsHist.run = 0
          /\ lsResult = LipSyncResult(lsHist.url20, lsTask)
    /\ (lsHist.status = 30 \/ (lsHist.status = 20 /\ lsHist.url20 = "")) =>
          lsPc = "raised" /\ lsResult.kind \in {"RuntimeError", "RuntimeError:billing"}
    /\ lsResult.kind = "TimeoutError" => lsPc = "raised"
    /\ lsPc = "raised" => lsResult.kind \notin {"handle", "none"} /\ lsResult.video_url = ""
    /\ ttsResult.kind = "handle" <=> ttsPc = "returned"
    /\ ttsPc = "returned" =>
          /\ ttsHist.status = 9 /\ ttsHist.msg = <<>> /\ ttsHist.url # ""
          /\ ttsHist.run = 0
          /\ ttsResult = TTSResult(ttsHist.url, ttsTask)
    /\ (ttsHist.status = 9 /\ (ttsHist.msg # <<>> \/ ttsHist.url = "")) =>
          ttsPc = "raised" /\ ttsResult.kind \in {"RuntimeError", "RuntimeError:billing"}
    /\ ttsResult.kind = "TimeoutError" => ttsPc = "raised"
    /\ ttsPc = "raised" => ttsResult.kind \notin {"handle", "none"} /\ ttsResult.url = ""

\* C16's case: a TTS job seen running, a failed query, then status 9 with a
\* URL and the handle returned
C16_Witness ==
    /\ ttsPc = "returned"
    /\ ttsResult = TTSResult("a1", "t2")
    /\ ttsHist.queries = 3
    /\ ttsPollCount = 1

\* the uploads of the current operation that ended synced, in order
LsSynced == SelectSeq(lsHist.uploads, LAMBDA u : u[2] = "synced")

\* C28: the job-creation request is issued only after the video upload and
\* then the audio upload have each ended with the file synced; a missing
\* local file means no upload is made; an upload that fails or times out
\* ends the operation with no job-creation request and no status query.
C28_JobOnlyAfterBothUploadsSynced ==
    /\ Len(lsHist.uploads) <= 2
    /\ \A i \in 1..Len(lsHist.uploads) :
          /\ lsHist.uploads[i][1] = IF i = 1 THEN "video" ELSE "audio"
          /\ lsHist.uploads[i][2] # "synced" =>
                /\ i = Len(lsHist.uploads)
                /\ lsPc = "raised"
                /\ ~lsHist.job /\ ~lsHist.queried
    /\ lsHist.job =>
          lsHist.uploads = <<(<<"video", "synced">>), (<<"audio", "synced">>)>>
    /\ lsHist.queried => lsHist.job /\ lsHist.polling
    /\ lsResult.kind = "FileNotFoundError" =>
          lsHist.uploads = <<>> /\ ~lsHist.job /\ ~lsHist.queried

\* C28's case: the video upload synced and the audio upload timed out
C28_Witness ==
    /\ lsPc = "raised"
    /\ lsHist.uploads = <<(<<"video", "synced">>), (<<"audio", "timeout">>)>>
    /\ ~lsHist.job

\* C17: under one stage name the percents passed to the progress callback
\* never decrease and lie in 0..100, whatever the server reports; only a
\* change of stage may lower the percent.
C17_ProgressMonotonicWithinStage ==
    [][/\ lsCb'[1] = lsCb[1] => lsCb'[2] >= lsCb[2]
       /\ ttsCb'[1] = ttsCb[1] => ttsCb'[2] >= ttsCb[2]
       /\ cnCb'[1] = cnCb[1] => cnCb'[2] >= cnCb[2]
       /\ lsCb'[2] \in 0..100 /\ ttsCb'[2] \in 0..100 /\ cnCb'[2] \in 0..100]_vars

(***************************************************************************)
(* Claims about the TTS service                                            *)
(***************************************************************************)
SpecTts == Init /\ [][NextTts]_vars

\* the text is empty, whitespace only, or longer than 4000 characters
TextRefused(t) == t.len = 0 \/ t.blank \/ t.len > 4000

\* C31 (state part): a text that is empty, whitespace only or longer than
\* 4000 characters has ended synthesize with the validation error, with no
\* job-creation request and no status query; any other text at hand, one of
\* exactly 4000 characters included, has passed the validation.
C31_RefusedTextRaises ==
    /\ (ttsHist.text # NoText /\ TextRefused(ttsHist.text)) =>
          /\ ttsPc = "raised"
          /\ ttsResult.kind = "ValueError"
          /\ ~ttsHist.job
          /\ ttsHist.queries = 0
    /\ (ttsHist.text # NoText /\ ~TextRefused(ttsHist.text)) =>
          ttsPc = "job" /\ ttsResult.kind # "ValueError"
    /\ ttsResult.kind = "ValueError" => ~ttsHist.job /\ ttsHist.queries = 0
    /\ ttsHist.queries > 0 => ttsHist.job

\* C31 (step part): the job-creation request carries a text that is not
\* refused.
C31_JobCarriesValidText ==
    (ttsHist'.job /\ ~ttsHist.job) =>
        ttsHist.text # NoText /\ ~TextRefused(ttsHist.text)

\* C31: synthesize with an empty, whitespace-only or over-long text fails
\* with the validation error before any job-creation or status request; a
\* text of exactly 4000 characters passes.
C31_TextValidatedBeforeRequests ==
    []C31_RefusedTextRaises /\ [][C31_JobCarriesValidText]_vars

\* C31's case: a text of exactly 4000 characters is about to be sent
C31_Witness ==
    /\ ttsPc = "job"
    /\ ttsHist.text = [len |-> 4000, blank |-> FALSE]
    /\ ~ttsHist.job

(***************************************************************************)
(* Claims about the voice-clone service                                    *)
(***************************************************************************)
SpecCn == Init /\ [][NextCn]_vars

\* no cache call was made in this operation
CnCacheUntouched == cnHist.gets = 0 /\ cnHist.puts = 0 /\ cnHist.removes = 0

\* C12: when the audio's duration is known and below 15 seconds, clone_voice
\* fails with a validation error with no network request issued before, the
\* token request included, and without a read or a change of the cache.
C12_ShortAudioFailsBeforeNetwork ==
    cnHist.check = "short" =>
        /\ cnPc = "raised"
        /\ cnResult.kind = "ValueError"
        /\ CnNetwork(cnHist) = 0
        /\ CnCacheUntouched

\* the key of the operation's audio, and the id the cache holds for it
CnKey == MakeKey(cnArgs.key[1], cnArgs.key[2])
CnHeld == CacheGet(vcMem[1].map, CnKey)

\* C18: with use_cache, a cache hit whose validation query reports the id
\* ready makes clone return the cached id after that one status query, with
\* no upload, no job creation, no polling query and no cache write.
C18_ValidCacheHitReturnsCachedId ==
    cnHist.vq = "ready" =>
        /\ cnArgs.use_cache
        /\ cnPc = "returned"
        /\ cnResult = CnReturn(cnCached)
        /\ cnCached \notin {NoneId, ""}
        /\ CnHeld = cnCached
        /\ cnHist.validations = 1
        /\ cnHist.uploads = 0 /\ cnHist.jobs = 0 /\ cnHist.queries = 0
        /\ cnHist.puts = 0 /\ cnHist.removes = 0

\* C18's case: the id cached by an earlier clone is found valid and returned
C18_Witness ==
    /\ cnHist.vq = "ready"
    /\ cnResult = CnReturn("v1")
    /\ cnIssued = 1

\* C19: with use_cache, a cached id that fails validation (another status
\* than ready, or a failed query) has its entry removed before any upload;
\* the entry stays absent until a fresh clone succeeds, which makes the cache
\* map the key to the new id; the stale id is never returned.
C19_InvalidCacheHitClonesAfresh ==
    cnHist.vq \in {"not_ready", "failed"} =>
        /\ cnArgs.use_cache
        /\ cnHist.validations = 1
        /\ cnHist.removes = 1
        /\ cnHist.stale = cnCached /\ cnCached \notin {NoneId, ""}
        /\ cnPc # "validate"
        /\ cnHist.puts = 0 => CnKey \notin DOMAIN vcMem[1].map
        /\ cnResult.voice_id # cnHist.stale
        /\ cnPc = "returned" =>
              /\ cnHist.uploads = 1 /\ cnHist.jobs = 1 /\ cnHist.puts = 1
              /\ cnResult = CnReturn(cnVoice)
              /\ CnHeld = cnVoice

\* C19's case: the validation query of the cached id v1 fails, the fresh
\* clone returns v2 and the cache holds v2
C19_Witness ==
    /\ cnHist.vq = "failed"
    /\ cnHist.stale = "v1"
    /\ cnResult = CnReturn("v2")
    /\ CnHeld = "v2"

\* the cache as the service's instance sees it, and the keys whose entry a
\* step adds or changes
CnCacheMap == CacheLoad(vcMem[1], vcFile).map
CnWrittenKeys ==
    {k \in DOMAIN CnCacheMap' :
        k \notin DOMAIN CnCacheMap \/ CnCacheMap'[k] # CnCacheMap[k]}

\* clone has raised at the upload or later: the upload, the job creation
\* or the polling failed or timed out
CnFailedAfterUpload == cnPc = "raised" /\ cnHist.uploads > 0

\* an entry is written only in the step in which polling observes status 2
\* for the voice id of this call, under the key of this call, with use_cache
C35_EntryOnlyAfterSuccess ==
    CnWrittenKeys # {} =>
        /\ CnWrittenKeys = {CnKey}
        /\ cnArgs.use_cache
        /\ cnPc = "poll" /\ cnPc' = "returned"
        /\ cnHist'.status = 2
        /\ CnCacheMap'[CnKey].voice_id = cnVoice
        /\ cnResult' = CnReturn(cnVoice)

\* with use_cache disabled no step of the call reads or changes the cache
C35_NoCacheUseWhenDisabled ==
    ~cnArgs.use_cache => UNCHANGED <<vcMem, vcFile>>

\* C35 as stated: the cache is written only after polling observed status
\* 2; after a failure of the upload, the job creation or the polling the
\* cache holds no entry for the call's (hash, model); with use_cache
\* disabled the cache is neither read nor written.
C35_NoEntryAfterFailure ==
    /\ [](CnFailedAfterUpload => CnKey \notin DOMAIN CnCacheMap)
    /\ [](~cnArgs.use_cache => CnCacheUntouched)
    /\ [][C35_EntryOnlyAfterSuccess /\ C35_NoCacheUseWhenDisabled]_vars

\* C35 amended: the cache is written only after polling observed status 2;
\* after a failure of the upload, the job creation or the polling of a call
\* with use_cache enabled the cache holds no entry for the call's (hash,
\* model); with use_cache disabled the cache is neither read nor written,
\* so an entry it held before the call is still there after a failure.
C35_NoEntryAfterFailureWithCache ==
    /\ []((CnFailedAfterUpload /\ cnArgs.use_cache) =>
              CnKey \notin DOMAIN CnCacheMap)
    /\ [](~cnArgs.use_cache => CnCacheUntouched)
    /\ [][C35_EntryOnlyAfterSuccess /\ C35_NoCacheUseWhenDisabled]_vars

\* C35's case: the cached id v1 failed validation and its entry was
\* removed, then the polling of the fresh clone failed: no entry is held
C35_Witness ==
    /\ cnPc = "raised"
    /\ cnArgs.use_cache
    /\ cnHist.stale = "v1" /\ cnHist.removes = 1
    /\ cnHist.queries > 0
    /\ CnKey \notin DOMAIN CnCacheMap

(***************************************************************************)
(* Claims about the termination of the polling loops                       *)
(***************************************************************************)
\* a client used for one of the job services or for an upload of its own
NextPoll == NextSvc \/ NextUf

\* one step of a polling loop: the head check, a status query, a sleep
PollPass ==
    \/ UfTimeout \/ UfQuery \/ UfQueryFails
    \/ PollCheck \/ PollQuery \/ PollSleep
    \/ TtsTimeout \/ TtsQuery \/ TtsQueryFails
    \/ CnTimeout \/ CnQuery \/ CnQueryFails

\* every HTTP call returns or raises and every sleep ends: a loop that can
\* take its next step takes it
SpecPoll == Init /\ [][NextPoll]_vars /\ WF_vars(PollPass)

\* the client is in one of the four polling loops
Polling ==
    \/ ufPc = "poll"
    \/ lsPc \in {"check", "query", "sleep"}
    \/ ttsPc = "poll"
    \/ cnPc = "poll"

\* the operation of the client has returned or raised
Ended ==
    \/ ufPc \in {"returned", "raised"}
    \/ lsPc \in {"returned", "raised"}
    \/ ttsPc \in {"returned", "raised"}
    \/ cnPc \in {"returned", "raised"}

\* a polling loop, once entered, ends: its operation returns or raises
PollingEnds == Polling ~> Ended

\* the timeout error of a loop is raised only once more than its maximum
\* wait has elapsed
TimeoutOnlyWhenOver ==
    /\ ufResult.kind = "TimeoutError" => ufClock - ufStart > UfMaxWait
    /\ lsResult.kind = "TimeoutError" => lsClock - lsStart > LsMaxWait
    /\ ttsResult.kind = "TimeoutError" => ttsClock - ttsStart > TtsMaxWait
    /\ cnResult.kind = "TimeoutError" => cnClock - cnStart > CnMaxWait

\* a loop whose last query returned a status that is not final has ended
\* only in the timeout error
PendingEndsInTimeout ==
    /\ (ufPc \in {"returned", "raised"} /\ ufHist.queries > 0
           /\ ufHist.fail = "none" /\ ufHist.status \notin UfTerminal) =>
          ufResult.kind = "TimeoutError"
    /\ (lsPc \in {"returned", "raised"} /\ lsHist.queried
           /\ lsHist.run = 0 /\ lsHist.status \notin LsTerminal) =>
          lsResult.kind = "TimeoutError"
    /\ (ttsPc \in {"returned", "raised"} /\ ttsHist.queries > 0
           /\ ttsHist.fail = "none" /\ ttsHist.status \notin TtsTerminal) =>
          ttsResult.kind = "TimeoutError"
    /\ (cnPc \in {"returned", "raised"} /\ cnHist.queries > 0
           /\ cnHist.fail = "none" /\ cnHist.status \notin CnTerminal) =>
          cnResult.kind = "TimeoutError"

\* no status query was issued at a time when more than the maximum wait of
\* its loop had elapsed
NoQueryPastMaxWait ==
    ~ufHist.over /\ ~lsHist.late /\ ~ttsHist.late /\ ~cnHist.late

\* no status query was issued in a pass of a loop whose head found more
\* than the maximum wait elapsed
NoPassPastMaxWait ==
    ~ufHist.late /\ ~lsHist.late /\ ~ttsHist.late /\ ~cnHist.late

\* C25: every polling loop (file sync, lip-sync, voice clone, TTS) ends in
\* success, a terminal error or the timeout error; no status query is issued
\* once the elapsed time has exceeded the maximum wait; a job that stays in
\* a status that is not final ends in the timeout error.
C25_PollingEndsNoQueryPastMaxWait ==
    /\ PollingEnds
    /\ []NoQueryPastMaxWait
    /\ [](TimeoutOnlyWhenOver /\ PendingEndsInTimeout)

\* C25 as it holds: every polling loop ends in success, a terminal error or
\* the timeout error; the maximum wait is tested at the head of each pass,
\* so no pass begins once it has been exceeded (the query of a pass that
\* began in time still goes out, after the sleep of the file-sync loop);
\* a job that stays in a status that is not final ends in the timeout error.
C25_PollingEndsNoPassPastMaxWait ==
    /\ PollingEnds
    /\ []NoPassPastMaxWait
    /\ [](TimeoutOnlyWhenOver /\ PendingEndsInTimeout)

\* C25's case: every TTS status query returned a status that is not final,
\* the last one an unknown status, and the operation ended in the timeout
C25_Witness ==
    /\ ttsPc = "raised"
    /\ ttsResult.kind = "TimeoutError"
    /\ ttsHist.fail = "none"
    /\ ttsHist.status = 5
    /\ ttsErrors = 0
    /\ ttsPollCount = ttsHist.queries

====
